---- MODULE Spec2Model ----
(***************************************************************************)
(* A model of iopup (bin/iopup.py): the benchmark launchers                *)
(* (BenchmarkLauncher and its three adapters), the scheduler               *)
(* run_launchers with its thread pool, and direct use of one launcher.     *)
(***************************************************************************)
EXTENDS Integers, Sequences, FiniteSets, TLC

\* ------------------------------------------------------------------ bounds
\* Largest number of workload descriptors handed to run_launchers.
MaxN == 2
\* Largest inter-launch delay (seconds) handed to run_launchers.
MaxDelay == 1
\* Largest number of direct method calls made on one launcher.
MaxCalls == 3
\* Longest time (seconds) the clock is followed while a benchmark runs.
MaxRunTime == 1

\* ------------------------------------------------------- program constants
\* time.sleep(5) after the worker pool has been joined.
PoolSettle == 5
\* time.sleep(5) after ElbenchoLauncher.preflight started the service.
ServiceSettle == 5
\* time.sleep(5) after ElbenchoLauncher.teardown issued --quit.
QuitSettle == 5
\* time.sleep(5) after MdworkbenchLauncher.teardown started its cleanup.
MdSettle == 5

MPIRUN_BIN == "srun"

\* Values a launcher's stdout/stderr can hold besides an open file's name.
None == "None"
PIPE == "PIPE"
\* The sentinel -94720 of run(): "use the launcher's own stream".
DEFAULT == "-94720"

Kinds == {"elbencho", "ior", "md-workbench"}

\* ------------------------------------------------------------ configuration
\* The tool configuration load_config returns, as _init_args tokenizes it.
\* hasClean: whether access_args of the tool has the key "clean".
AccessArgs(kind, hasClean) ==
    LET base == CASE kind = "elbencho" -> [write |-> <<"--write">>, read |-> <<"--read">>]
                  [] kind = "ior" -> [write |-> <<"-w">>, read |-> <<"-r">>]
                  [] OTHER -> [write |-> <<"-W">>, read |-> <<"-R">>]
    IN  IF hasClean THEN base @@ [clean |-> <<"--delfiles">>] ELSE base

PatternArgs(kind) ==
    CASE kind = "elbencho" -> [bw |-> <<"--block", "1m">>, iops |-> <<"--block", "4k", "--rand">>]
      [] kind = "ior" -> [bw |-> <<"-t", "1m">>, iops |-> <<"-t", "4k", "-z">>]
      [] OTHER -> [bw |-> <<"-P", "1">>, iops |-> <<"-P", "10">>]

\* access_pattern_args: the optional access-by-pattern override table.
AccessPatternArgs(kind) ==
    CASE kind = "elbencho" -> [write |-> [iops |-> <<"--direct">>]]
      [] OTHER -> [write |-> [iops |-> <<"-O">>]]

CommonArgs(kind) ==
    CASE kind = "elbencho" -> <<"--threads", "1", "--sync">>
      [] kind = "ior" -> <<"-C", "-e">>
      [] OTHER -> <<"-S">>

TimelimitArgs(kind) ==
    CASE kind = "elbencho" -> <<"--timelimit">>
      [] kind = "ior" -> <<"-D">>
      [] OTHER -> <<"-w">>

RandomDataArgs(kind) ==
    CASE kind = "elbencho" -> <<"--blockvarpct", "100">>
      [] kind = "ior" -> <<"-l", "random">>
      [] OTHER -> <<>>

Binary(kind) == kind

\* ------------------------------------------------------------------ helpers
RECURSIVE Join(_)
\* ",".join(hosts)
Join(hosts) ==
    IF Len(hosts) = 0 THEN ""
    ELSE IF Len(hosts) = 1 THEN hosts[1]
    ELSE hosts[1] \o "," \o Join(Tail(hosts))

\* list.index(x): the first position of x in s (1-based), 0 when absent.
IndexOf(s, x) ==
    IF \E i \in 1..Len(s) : s[i] = x
    THEN CHOOSE i \in 1..Len(s) : s[i] = x /\ \A j \in 1..(i - 1) : s[j] # x
    ELSE 0

\* ElbenchoLauncher.__init__: the token after -t/--threads (or the token at
\* index 1 when neither is present) is overwritten with str(ppn).
SetThreads(common, ppn) ==
    LET idx == IF IndexOf(common, "-t") # 0 THEN IndexOf(common, "-t")
               ELSE IF IndexOf(common, "--threads") # 0 THEN IndexOf(common, "--threads")
               ELSE 1
    IN  [common EXCEPT ![idx + 1] = ToString(ppn)]

\* BenchmarkLauncher.__init__ followed by the adapter's __init__.
NewLauncher(kind, hosts, ppn, output_dir, timelimit, random_data, test, hasClean) ==
    [ kind |-> kind,
      binary |-> Binary(kind),
      hosts |-> hosts,
      ppn |-> ppn,
      output_dir |-> output_dir,
      timelimit |-> timelimit,
      timelimit_args |-> TimelimitArgs(kind),
      random_data |-> random_data,
      random_data_args |-> RandomDataArgs(kind),
      test |-> test,
      kwargs |-> <<>>,
      cmdline |-> <<>>,
      common_args |-> IF kind = "elbencho" THEN SetThreads(CommonArgs(kind), ppn)
                      ELSE CommonArgs(kind),
      access_args |-> AccessArgs(kind, hasClean),
      pattern_args |-> PatternArgs(kind),
      access_pattern_args |-> AccessPatternArgs(kind),
      prepend_cmdline |-> IF kind = "elbencho" THEN <<>>
                          ELSE <<MPIRUN_BIN, "-N", ToString(Len(hosts)),
                                 "-n", ToString(Len(hosts) * ppn)>>,
      livecsv |-> FALSE,
      stdout |-> None,
      stderr |-> None,
      log |-> <<>> ]

\* ------------------------------------------------- command-line assembly
\* _add_hosts of the adapters: ElbenchoLauncher appends --hosts; IorLauncher
\* and MdworkbenchLauncher insert --nodelist after the launcher binary.
AddHosts(l, cmd) ==
    IF l.kind = "elbencho"
    THEN cmd \o <<"--hosts", Join(l.hosts)>>
    ELSE <<cmd[1], "--nodelist", Join(l.hosts)>> \o Tail(cmd)

\* _add_timelimit
AddTimelimit(l, cmd) ==
    IF l.timelimit # 0
    THEN cmd \o l.timelimit_args \o <<ToString(l.timelimit)>>
    ELSE cmd

\* _add_random_data
AddRandomData(l, cmd) ==
    IF l.random_data THEN cmd \o l.random_data_args ELSE cmd

\* isinstance(stdout, io.IOBase) and os.path.isfile(stdout.name): the stream
\* is a file opened by the driver, not None and not subprocess.PIPE.
IsFile(stream) == stream \notin {None, PIPE, DEFAULT}

\* _add_results_file: only ElbenchoLauncher routes results.
AddResultsFile(l, cmd) ==
    IF l.kind = "elbencho" /\ IsFile(l.stdout)
    THEN cmd \o <<"--resfile", l.stdout \o ".results", "--csvfile", l.stdout \o ".csv">>
             \o (IF l.livecsv THEN <<"--livecsv", l.stdout \o ".live.csv">> ELSE <<>>)
    ELSE cmd

RECURSIVE KwargsTokens(_)
\* The loop over self._kwargs.items(): a value that is the boolean True gives
\* a bare --key, any other value gives --key str(val).
KwargsTokens(kw) ==
    IF Len(kw) = 0 THEN <<>>
    ELSE LET e == kw[1]
         IN  (IF e.isbool /\ e.bval THEN <<"--" \o e.key>>
              ELSE <<"--" \o e.key, IF e.isbool THEN "False" ELSE e.sval>>)
             \o KwargsTokens(Tail(kw))

\* Mutant: every adapter passes all its directories.
AddOutputDirAll(l, cmd) ==
    IF Len(l.output_dir) = 0 THEN cmd
    ELSE IF l.kind = "elbencho" THEN cmd \o l.output_dir
    ELSE cmd \o <<"-o">> \o l.output_dir

\* _add_output_dir of the adapters: all directories for ElbenchoLauncher,
\* -o and the first directory for the other two.
AddOutputDir(l, cmd) ==
    IF Len(l.output_dir) = 0 THEN cmd
    ELSE IF l.kind = "elbencho" THEN cmd \o l.output_dir
    ELSE cmd \o <<"-o", l.output_dir[1]>>

\* self._access_pattern_args.get(access, {}).get(pattern, [])
OverrideArgs(l, access, pattern) ==
    IF access \in DOMAIN l.access_pattern_args
    THEN IF pattern \in DOMAIN l.access_pattern_args[access]
         THEN l.access_pattern_args[access][pattern]
         ELSE <<>>
    ELSE <<>>

\* The buffer up to and including the common arguments (lines 153-161).
CmdlineHead(l) ==
    LET c0 == IF Len(l.prepend_cmdline) > 0 THEN l.prepend_cmdline ELSE <<>>
        c1 == Append(c0, l.binary)
        c2 == AddHosts(l, c1)
        c3 == AddTimelimit(l, c2)
        c4 == AddRandomData(l, c3)
        c5 == AddResultsFile(l, c4)
    IN  c5 \o l.common_args

\* Mutant: the override arguments take the place of the pattern arguments.
PrepCmdlineSubstitute(l, access, pattern) ==
    LET head == CmdlineHead(l)
        over == OverrideArgs(l, access, pattern)
    IN  IF access \notin DOMAIN l.access_args
        THEN [raised |-> TRUE, cmdline |-> head]
        ELSE IF pattern \notin DOMAIN l.pattern_args
        THEN [raised |-> TRUE, cmdline |-> head \o l.access_args[access]]
        ELSE [raised |-> FALSE,
              cmdline |-> AddOutputDir(l,
                  head \o l.access_args[access]
                       \o (IF over = <<>> THEN l.pattern_args[pattern] ELSE over)
                       \o KwargsTokens(l.kwargs))]

\* _prep_cmdline(access, pattern): the buffer it leaves in self._cmdline and
\* whether it raised KeyError (an access or pattern key the tables lack); the
\* buffer then holds what had been assembled when the lookup failed.
PrepCmdline(l, access, pattern) ==
    LET head == CmdlineHead(l)
    IN  IF access \notin DOMAIN l.access_args
        THEN [raised |-> TRUE, cmdline |-> head]
        ELSE IF pattern \notin DOMAIN l.pattern_args
        THEN [raised |-> TRUE, cmdline |-> head \o l.access_args[access]]
        ELSE [raised |-> FALSE,
              cmdline |-> AddOutputDir(l,
                  head \o l.access_args[access] \o l.pattern_args[pattern]
                       \o OverrideArgs(l, access, pattern)
                       \o KwargsTokens(l.kwargs))]

RECURSIVE DictUpdate(_, _)
\* dict.update: an existing key keeps its position and takes the new value,
\* a new key is appended.
DictUpdate(kw, extra) ==
    IF Len(extra) = 0 THEN kw
    ELSE LET e == extra[1]
             pos == IF \E i \in 1..Len(kw) : kw[i].key = e.key
                    THEN CHOOSE i \in 1..Len(kw) : kw[i].key = e.key
                    ELSE 0
             kw1 == IF pos = 0 THEN Append(kw, e) ELSE [kw EXCEPT ![pos] = e]
         IN  DictUpdate(kw1, Tail(extra))

\* self._kwargs.update(kwargs) in run(): the extra arguments of this call are
\* merged into the launcher's own dictionary.
MergeKwargs(l, extra) == DictUpdate(l.kwargs, extra)

\* BenchmarkLauncher.run(access, pattern, stdout, stderr, **extra) up to its
\* return: the launcher it leaves, whether it raised, and the subprocess it
\* created (popen) with its command line and streams.  In dry-run mode the
\* command line is logged and left in the buffer and no process is created.
Run(l, access, pattern, stdout, stderr, extra) ==
    LET l1 == [l EXCEPT !.kwargs = MergeKwargs(l, extra)]
        prep == PrepCmdline(l1, access, pattern)
        l2 == [l1 EXCEPT !.cmdline = prep.cmdline]
        l3 == [l2 EXCEPT !.log = Append(@, prep.cmdline)]
    IN  IF prep.raised
        THEN [l |-> l2, raised |-> TRUE, popen |-> FALSE, cmd |-> <<>>,
              out |-> None, err |-> None]
        ELSE IF l.test
        THEN [l |-> l3, raised |-> FALSE, popen |-> FALSE, cmd |-> <<>>,
              out |-> None, err |-> None]
        ELSE [l |-> [l3 EXCEPT !.cmdline = <<>>], raised |-> FALSE, popen |-> TRUE,
              cmd |-> prep.cmdline,
              out |-> IF stdout = DEFAULT THEN l.stdout ELSE stdout,
              err |-> IF stderr = DEFAULT THEN l.stderr ELSE stderr]

\* ----------------------------------------------- preflight and teardown
\* Mutant: every adapter has a preflight and a teardown of its own.
OverridesLifecycleAll(l) == TRUE

\* Whether the adapter defines preflight and teardown itself: ElbenchoLauncher
\* and MdworkbenchLauncher do, IorLauncher inherits the base methods, which
\* return at once.
OverridesLifecycle(l) == l.kind \in {"elbencho", "md-workbench"}

\* The command line ElbenchoLauncher.preflight / MdworkbenchLauncher.preflight
\* put in the buffer (IorLauncher inherits the base no-op and builds none).
PreflightCmd(l) ==
    LET n == ToString(Len(l.hosts))
        pre == <<MPIRUN_BIN, "-N", n, "-n", n, "--nodelist", Join(l.hosts), l.binary>>
    IN  IF l.kind = "elbencho" THEN pre \o <<"--service", "--foreground">>
        ELSE pre \o <<"-1">> \o l.common_args

\* The command line MdworkbenchLauncher.teardown puts in the buffer.
MdTeardownCmd(l) ==
    LET n == ToString(Len(l.hosts))
    IN  <<MPIRUN_BIN, "-N", n, "-n", n, "--nodelist", Join(l.hosts), l.binary, "-3">>
            \o l.common_args

\* The service shutdown command of ElbenchoLauncher.teardown.
QuitCmd(l) == AddHosts(l, <<l.binary, "--quit">>)

\* Mutant: the buffer is set and nothing is logged.
LogCmdSilent(l, cmd) == [l EXCEPT !.cmdline = cmd]

\* self._logger.info(" ".join(self._cmdline)) with the buffer set to cmd.
LogCmd(l, cmd) == [l EXCEPT !.cmdline = cmd, !.log = Append(@, cmd)]

\* --------------------------------------------------------------- state
VARIABLES
    workloads,   \* the descriptors given to run_launchers: [access, pattern]
    delay,       \* the delay argument of run_launchers
    launchers,   \* launchers[i]: the launcher object of descriptor i
    procs,       \* procs[i]: the subprocesses launcher i created, in order
    now,         \* the wall clock, in seconds
    svc,         \* svc[i]: lifecycle of launcher i's background service
    mpc,         \* where the thread that called run_launchers is
    mi,          \* its loop index (1-based descriptor index)
    mh,          \* the handle it holds: <<launcher, position in procs>>
    wpc,         \* wpc[i]: where the pool task of descriptor i is
    wwake,       \* wwake[i]: when the task's time.sleep(delay) is over
    wproc,       \* wproc[i]: proc, the handle launcher.run returned
    wt0,         \* wt0[i]: time0 of the task
    wtf,         \* wtf[i]: timef of the task
    poolStart,   \* the clock when the pool was started
    mapped,      \* the pool's result list, filled by index
    results,     \* what run_launchers returned
    hist,        \* what has been called and returned so far
    calls,       \* direct use of a launcher: the calls made so far
    drv,         \* the interference driver: its descriptors and where it is
    mn,          \* main: its locals and where it is
    sm           \* interference_summary: the pivot and the loss table

vars == <<workloads, delay, launchers, procs, now, svc, mpc, mi, mh, wpc, wwake,
          wproc, wt0, wtf, poolStart, mapped, results, hist, calls, drv, mn, sm>>

N == Len(workloads)
NoHandle == <<0, 0>>
NoStamp == 0 - 1

\* subprocess.Popen: launcher i gets one more process, running.
Popen(i, site, cmd, out, err) ==
    [procs EXCEPT ![i] = Append(@, [site |-> site, cmd |-> cmd, out |-> out,
                                    err |-> err, alive |-> TRUE, t |-> now,
                                    svcAt |-> svc[i]])]

LastHandle(ps, i) == <<i, Len(ps[i])>>

Alive(h) == h # NoHandle /\ procs[h[1]][h[2]].alive

\* Hosts, ppn, output directory and time limit the launchers are built with.
HostsOf(i) == IF i = 1 THEN <<"cgpu00", "cgpu01">> ELSE <<"cgpu0" \o ToString(i)>>
OutputDirOf(i) == <<"/scratch/data-" \o ToString(i)>>
TimelimitOf(i) == IF i = 1 THEN 90 ELSE 45
PpnOf(i) == 2
\* The file the driver opened for the phase and set as stdout and stderr.
OutFileOf(i) == "w" \o ToString(i) \o ".out"

\* Access and pattern of a descriptor: known keys, or one of them unknown.
KeyPairs == { [access |-> "write", pattern |-> "bw"],
              [access |-> "bogus", pattern |-> "bw"],
              [access |-> "write", pattern |-> "bogus"] }

NoHist == [ preSeq |-> <<>>, preRet |-> 0, preHandle |-> <<>>,
            tdSeq |-> <<>>, tdRet |-> 0, tdFirst |-> NoStamp,
            runCalled |-> {}, runReturned |-> {}, runSvc |-> <<>>,
            tdHandle |-> <<>> ]

NoCalls == [ n |-> 0, op |-> "none", raised |-> FALSE, handle |-> FALSE,
             logged |-> 0, first |-> <<>>, last |-> <<>>, args |-> <<>>,
             prev |-> <<>> ]

\* No interference driver has been entered; main is not running.
NoDrv == [ fn |-> "none", pc |-> "none" ]
NoMain == [ pc |-> "none" ]
\* interference_summary is not running.
NoSummary == [ pc |-> "none" ]

\* The state in which run_launchers(*workloads, delay=delay) is entered.
Init ==
    /\ \E n \in 1..MaxN, test \in BOOLEAN, hasClean \in BOOLEAN :
        \E kinds \in [1..n -> Kinds], keys \in [1..n -> KeyPairs] :
            /\ workloads = keys
            /\ launchers = [i \in 1..n |->
                   [NewLauncher(kinds[i], HostsOf(i), PpnOf(i), OutputDirOf(i),
                                TimelimitOf(i), TRUE, test, hasClean)
                       EXCEPT !.stdout = OutFileOf(i), !.stderr = OutFileOf(i)]]
            /\ procs = [i \in 1..n |-> <<>>]
            /\ svc = [i \in 1..n |-> "NotStarted"]
            /\ wpc = [i \in 1..n |-> "idle"]
            /\ wwake = [i \in 1..n |-> 0]
            /\ wproc = [i \in 1..n |-> NoHandle]
            /\ wt0 = [i \in 1..n |-> NoStamp]
            /\ wtf = [i \in 1..n |-> NoStamp]
    /\ delay \in 0..MaxDelay
    /\ now = 0
    /\ mpc = "preflight"
    /\ mi = 1
    /\ mh = NoHandle
    /\ poolStart = NoStamp
    /\ mapped = <<>>
    /\ results = <<>>
    /\ hist = NoHist
    /\ calls = NoCalls
    /\ drv = NoDrv
    /\ mn = NoMain
    /\ sm = NoSummary

\* ------------------------------------------------------- run_launchers
\* Mutant: the teardown loop is left after its first descriptor.
AfterTeardownFirstOnly(i) == [pc |-> "return", i |-> 0]

\* Mutant: ElbenchoLauncher.teardown does not wait for its cleanup.
CleanNotWaited(h) == TRUE

\* Mutant: the preflight loop is left after its first descriptor.
AfterPreflightFirstOnly(i) == [pc |-> "pool_start", i |-> 0]

\* Where the serial loops go after descriptor i.
AfterPreflight(i) ==
    IF i < N THEN [pc |-> "preflight", i |-> i + 1] ELSE [pc |-> "pool_start", i |-> 0]

AfterTeardown(i) ==
    IF i < N THEN [pc |-> "teardown", i |-> i + 1] ELSE [pc |-> "return", i |-> 0]

\* prep_p.wait() of the preflight loop, of the teardown loop and proc.wait()
\* of ElbenchoLauncher.teardown: over once the process exited
\* (no handle: "if prep_p:" / "if proc:" skips the wait).
\* Mutant: the preflight loop does not wait on the handle.
PreflightNotWaited(h) == TRUE

PreflightWaited(h) == ~Alive(h)
TeardownWaited(h) == ~Alive(h)
\* proc.wait() of a pool task returns when the benchmark process has exited.
WorkerWait(h) ==
    IF h = NoHandle THEN procs ELSE [procs EXCEPT ![h[1]][h[2]].alive = FALSE]
CleanWaited(h) == ~Alive(h)

\* Mutant: every task gets the same delay, 0.
WorkerDelayNone(i) == 0

\* The argument delay * idx the pool task of descriptor i (idx = i - 1) gets.
WorkerDelay(i) == delay * (i - 1)

\* Mutant: the pool is left at the first delivered result.
PoolJoinedAny == \E i \in 1..N : wpc[i] = "done"

\* pool.starmap returns once every task has delivered its result.
PoolJoined == \A i \in 1..N : wpc[i] = "done"

\* Mutant: results are kept in the order the tasks finish.
StoreResultUnordered(value, i, pair) ==
    LET k == CHOOSE k \in 1..Len(value) :
                 /\ value[k] = <<0 - 1, 0 - 1>>
                 /\ \A j \in 1..(k - 1) : value[j] # <<0 - 1, 0 - 1>>
    IN  [value EXCEPT ![k] = pair]

\* MapResult._set: the result of task i goes to position i of the list.
StoreResult(value, i, pair) == [value EXCEPT ![i] = pair]

\* hist after a preflight/teardown call of the scheduler returned handle h.
PreReturned(hs, h) ==
    [hs EXCEPT !.preRet = @ + 1, !.preHandle = Append(@, h)]
TdReturned(hs, h, t) ==
    [hs EXCEPT !.tdRet = @ + 1, !.tdHandle = Append(@, [h |-> h, t |-> t])]
TdCalled(hs, i) ==
    [hs EXCEPT !.tdSeq = Append(@, i),
               !.tdFirst = IF @ = NoStamp THEN now ELSE @]

\* workload["launcher"].preflight() of the serial preflight loop, up to its
\* return or, for a started elbencho service, up to its time.sleep(5).
PreflightCall ==
    /\ mpc = "preflight"
    /\ LET i == mi
           l == launchers[i]
           called == [hist EXCEPT !.preSeq = Append(@, i)]
           logged == LogCmd(l, PreflightCmd(l))
           nxt == AfterPreflight(i)
       IN  IF ~OverridesLifecycle(l)
           THEN /\ hist' = PreReturned(called, NoHandle)
                /\ mpc' = nxt.pc /\ mi' = nxt.i
                /\ UNCHANGED <<launchers, procs, svc, mh>>
           ELSE IF l.test
           THEN /\ launchers' = [launchers EXCEPT ![i] = logged]
                /\ hist' = PreReturned(called, NoHandle)
                /\ mpc' = nxt.pc /\ mi' = nxt.i
                /\ UNCHANGED <<procs, svc, mh>>
           ELSE IF l.kind = "elbencho"
           THEN /\ launchers' = [launchers EXCEPT ![i] = [logged EXCEPT !.cmdline = <<>>]]
                /\ procs' = Popen(i, "service", logged.cmdline, PIPE, PIPE)
                /\ svc' = [svc EXCEPT ![i] = "Starting"]
                /\ hist' = called
                /\ mpc' = "pre_settle"
                /\ UNCHANGED <<mi, mh>>
           ELSE /\ launchers' = [launchers EXCEPT ![i] = [logged EXCEPT !.cmdline = <<>>]]
                /\ procs' = Popen(i, "mdpre", logged.cmdline, PIPE, PIPE)
                /\ hist' = PreReturned(called, LastHandle(procs', i))
                /\ mh' = LastHandle(procs', i)
                /\ mpc' = "pre_wait"
                /\ UNCHANGED <<svc, mi>>
    /\ UNCHANGED <<sm, drv, mn, workloads, delay, now, wpc, wwake, wproc, wt0, wtf, poolStart,
                   mapped, results, calls>>

\* Mutant: the preflight returns the handle of the service it started.
ServiceHandleReturned(ps, i) == LastHandle(ps, i)

\* "return None # don't return subprocess so preflight doesn't block": what
\* ElbenchoLauncher.preflight returns for the service process it started.
ServiceHandle(ps, i) == NoHandle

\* time.sleep(5) and the return of ElbenchoLauncher.preflight; with a handle
\* returned, "if prep_p: prep_p.wait()" of the preflight loop comes next.
PreflightSettle ==
    /\ mpc = "pre_settle"
    /\ now' = now + ServiceSettle
    /\ svc' = [svc EXCEPT ![mi] = "Running"]
    /\ LET h == ServiceHandle(procs, mi)
       IN  /\ hist' = PreReturned(hist, h)
           /\ mh' = h
           /\ IF h # NoHandle
              THEN mpc' = "pre_wait" /\ mi' = mi
              ELSE mpc' = AfterPreflight(mi).pc /\ mi' = AfterPreflight(mi).i
    /\ UNCHANGED <<sm, drv, mn, workloads, delay, launchers, procs, wpc, wwake, wproc, wt0,
                   wtf, poolStart, mapped, results, calls>>

\* "if prep_p: prep_p.wait()" of the preflight loop.
PreflightWait ==
    /\ mpc = "pre_wait"
    /\ PreflightWaited(mh)
    /\ mh' = NoHandle
    /\ mpc' = AfterPreflight(mi).pc /\ mi' = AfterPreflight(mi).i
    /\ UNCHANGED <<sm, drv, mn, workloads, delay, launchers, procs, now, svc, wpc, wwake, wproc,
                   wt0, wtf, poolStart, mapped, results, hist, calls>>

\* ThreadPool(len(workloads)) and pool.starmap: one task per descriptor, each
\* taken by a thread of its own; _run_and_wait_after_delay starts its sleep.
StartPool ==
    /\ mpc = "pool_start"
    /\ wpc' = [i \in 1..N |-> "sleep"]
    /\ wwake' = [i \in 1..N |-> now + WorkerDelay(i)]
    /\ poolStart' = now
    /\ mapped' = [i \in 1..N |-> <<NoStamp, NoStamp>>]
    /\ mpc' = "pool_wait"
    /\ UNCHANGED <<sm, drv, mn, workloads, delay, launchers, procs, now, svc, mi, mh, wproc, wt0,
                   wtf, results, hist, calls>>

\* The sleep is over: workload["launcher"].run(access=..., pattern=...).
WorkerRun(i) ==
    /\ wpc[i] = "sleep"
    /\ now >= wwake[i]
    /\ LET r == Run(launchers[i], workloads[i].access, workloads[i].pattern,
                    DEFAULT, DEFAULT, <<>>)
           called == [hist EXCEPT !.runCalled = @ \cup {i},
                                  !.runSvc = (i :> svc[i]) @@ @]
       IN  /\ launchers' = [launchers EXCEPT ![i] = r.l]
           /\ IF r.raised
              THEN /\ wpc' = [wpc EXCEPT ![i] = "raised"]
                   /\ hist' = called
                   /\ UNCHANGED <<procs, wproc>>
              ELSE /\ wpc' = [wpc EXCEPT ![i] = "stamp0"]
                   /\ hist' = [called EXCEPT !.runReturned = @ \cup {i}]
                   /\ procs' = IF r.popen THEN Popen(i, "run", r.cmd, r.out, r.err)
                               ELSE procs
                   /\ wproc' = [wproc EXCEPT ![i] = IF r.popen THEN LastHandle(procs', i)
                                                    ELSE NoHandle]
    /\ UNCHANGED <<sm, drv, mn, workloads, delay, now, svc, mpc, mi, mh, wwake, wt0, wtf,
                   poolStart, mapped, results, calls>>

\* time0 = time.time()
WorkerStamp0(i) ==
    /\ wpc[i] = "stamp0"
    /\ wt0' = [wt0 EXCEPT ![i] = now]
    /\ wpc' = [wpc EXCEPT ![i] = "wait"]
    /\ UNCHANGED <<sm, drv, mn, workloads, delay, launchers, procs, now, svc, mpc, mi, mh, wwake,
                   wproc, wtf, poolStart, mapped, results, hist, calls>>

\* "if proc: proc.wait()", timef = time.time(), return (time0, timef): the
\* benchmark process, when there is one, exits and the wait on it returns.
WorkerDone(i) ==
    /\ wpc[i] = "wait"
    /\ procs' = WorkerWait(wproc[i])
    /\ wtf' = [wtf EXCEPT ![i] = now]
    /\ mapped' = StoreResult(mapped, i, <<wt0[i], now>>)
    /\ wpc' = [wpc EXCEPT ![i] = "done"]
    /\ UNCHANGED <<sm, drv, mn, workloads, delay, launchers, now, svc, mpc, mi, mh, wwake,
                   wproc, wt0, poolStart, results, hist, calls>>

\* starmap returned: results is the list of the tasks' pairs.
PoolJoin ==
    /\ mpc = "pool_wait"
    /\ PoolJoined
    /\ results' = mapped
    /\ mpc' = "settle"
    /\ UNCHANGED <<sm, drv, mn, workloads, delay, launchers, procs, now, svc, mi, mh, wpc, wwake,
                   wproc, wt0, wtf, poolStart, mapped, hist, calls>>

\* A task raised (KeyError of _prep_cmdline): starmap re-raises it in the
\* caller as soon as the failure is delivered, and run_launchers is left by
\* the exception; tasks already taken go on in their threads.
PoolRaise ==
    /\ mpc = "pool_wait"
    /\ \E i \in 1..N : wpc[i] = "raised"
    /\ mpc' = "raised"
    /\ UNCHANGED <<sm, drv, mn, workloads, delay, launchers, procs, now, svc, mi, mh, wpc, wwake,
                   wproc, wt0, wtf, poolStart, mapped, results, hist, calls>>

\* time.sleep(5) between the pool and the teardown loop.
Settle ==
    /\ mpc = "settle"
    /\ now' = now + PoolSettle
    /\ mpc' = "teardown"
    /\ mi' = 1
    /\ UNCHANGED <<sm, drv, mn, workloads, delay, launchers, procs, svc, mh, wpc, wwake, wproc,
                   wt0, wtf, poolStart, mapped, results, hist, calls>>

\* ElbenchoLauncher.teardown up to "if proc: proc.wait()": the streams are
\* set aside, run(access='clean', ...) is called with pipes, the streams are
\* put back.  When run raises, the two set_* calls after it are not reached.
ElbenchoClean(l, pattern, extra) ==
    LET r == Run([l EXCEPT !.stdout = None, !.stderr = None], "clean", pattern,
                 PIPE, PIPE, extra)
    IN  IF r.raised THEN r
        ELSE [r EXCEPT !.l = [r.l EXCEPT !.stdout = l.stdout, !.stderr = l.stderr]]

\* workload["launcher"].teardown(access=..., pattern=...) of the serial
\* teardown loop, up to its return or to the first point where it blocks.
TeardownCall ==
    /\ mpc = "teardown"
    /\ LET i == mi
           l == launchers[i]
           called == TdCalled(hist, i)
           nxt == AfterTeardown(i)
       IN  IF ~OverridesLifecycle(l)
           THEN /\ hist' = TdReturned(called, NoHandle, now)
                /\ mpc' = nxt.pc /\ mi' = nxt.i
                /\ UNCHANGED <<launchers, procs, mh>>
           ELSE IF l.kind = "elbencho"
           THEN LET r == ElbenchoClean(l, workloads[i].pattern, <<>>)
                IN  /\ launchers' = [launchers EXCEPT ![i] = r.l]
                    /\ hist' = called
                    /\ IF r.raised
                       THEN /\ mpc' = "raised"
                            /\ UNCHANGED <<procs, mh, mi>>
                       ELSE /\ procs' = IF r.popen
                                        THEN Popen(i, "clean", r.cmd, r.out, r.err)
                                        ELSE procs
                            /\ mh' = IF r.popen THEN LastHandle(procs', i) ELSE NoHandle
                            /\ mpc' = "td_clean"
                            /\ UNCHANGED mi
           ELSE LET logged == LogCmd(l, MdTeardownCmd(l))
                IN  IF l.test
                    THEN /\ launchers' = [launchers EXCEPT ![i] = logged]
                         /\ hist' = TdReturned(called, NoHandle, now)
                         /\ mpc' = nxt.pc /\ mi' = nxt.i
                         /\ UNCHANGED <<procs, mh>>
                    ELSE /\ launchers' = [launchers EXCEPT
                                             ![i] = [logged EXCEPT !.cmdline = <<>>]]
                         /\ procs' = Popen(i, "mdpost", logged.cmdline, PIPE, PIPE)
                         /\ mh' = LastHandle(procs', i)
                         /\ hist' = called
                         /\ mpc' = "td_settle"
                         /\ UNCHANGED mi
    /\ UNCHANGED <<sm, drv, mn, workloads, delay, now, svc, wpc, wwake, wproc, wt0, wtf,
                   poolStart, mapped, results, calls>>

\* ElbenchoLauncher.teardown from "if proc: proc.wait()" to the Popen of the
\* service shutdown (in dry-run mode: to "return None").
TeardownQuit ==
    /\ mpc = "td_clean"
    /\ CleanWaited(mh)
    /\ LET i == mi
           logged == LogCmd(launchers[i], QuitCmd(launchers[i]))
           nxt == AfterTeardown(i)
       IN  IF launchers[i].test
           THEN /\ launchers' = [launchers EXCEPT ![i] = logged]
                /\ hist' = TdReturned(hist, NoHandle, now)
                /\ mpc' = nxt.pc /\ mi' = nxt.i /\ mh' = NoHandle
                /\ UNCHANGED <<procs, svc>>
           ELSE /\ launchers' = [launchers EXCEPT ![i] = [logged EXCEPT !.cmdline = <<>>]]
                /\ procs' = Popen(i, "quit", logged.cmdline, PIPE, PIPE)
                /\ svc' = [svc EXCEPT ![i] = "Stopped"]
                /\ mh' = LastHandle(procs', i)
                /\ mpc' = "td_settle"
                /\ UNCHANGED <<hist, mi>>
    /\ UNCHANGED <<sm, drv, mn, workloads, delay, now, wpc, wwake, wproc, wt0, wtf, poolStart,
                   mapped, results, calls>>

\* The time.sleep(5) a teardown ends with.
TeardownSleep(l) == IF l.kind = "elbencho" THEN QuitSettle ELSE MdSettle

\* time.sleep(5) and "return pservice" of the two teardowns that started a
\* process.
TeardownSettle ==
    /\ mpc = "td_settle"
    /\ now' = now + TeardownSleep(launchers[mi])
    /\ hist' = TdReturned(hist, mh, now')
    /\ mpc' = "td_wait"
    /\ UNCHANGED <<sm, drv, mn, workloads, delay, launchers, procs, svc, mi, mh, wpc, wwake,
                   wproc, wt0, wtf, poolStart, mapped, results, calls>>

\* "if prep_p: prep_p.wait()" of the teardown loop.
TeardownWait ==
    /\ mpc = "td_wait"
    /\ TeardownWaited(mh)
    /\ mh' = NoHandle
    /\ mpc' = AfterTeardown(mi).pc /\ mi' = AfterTeardown(mi).i
    /\ UNCHANGED <<sm, drv, mn, workloads, delay, launchers, procs, now, svc, wpc, wwake, wproc,
                   wt0, wtf, poolStart, mapped, results, hist, calls>>

\* return results
Return ==
    /\ mpc = "return"
    /\ mpc' = "returned"
    /\ UNCHANGED <<sm, drv, mn, workloads, delay, launchers, procs, now, svc, mi, mh, wpc, wwake,
                   wproc, wt0, wtf, poolStart, mapped, results, hist, calls>>

\* A second passes while a pool task sleeps or waits for its benchmark.  A
\* task whose sleep is over calls run and takes time0 within the second.
Tick ==
    /\ \A i \in 1..N : /\ wpc[i] # "stamp0"
                       /\ wpc[i] = "sleep" => wwake[i] > now
    /\ \E i \in 1..N :
          \/ wpc[i] = "sleep"
          \/ wpc[i] = "wait" /\ Alive(wproc[i]) /\ now < wt0[i] + MaxRunTime
    /\ now' = now + 1
    /\ UNCHANGED <<sm, drv, mn, workloads, delay, launchers, procs, svc, mpc, mi, mh, wpc, wwake,
                   wproc, wt0, wtf, poolStart, mapped, results, hist, calls>>

\* A preflight, cleanup or shutdown subprocess exits on its own.  (The exit
\* of a benchmark is seen by the task that waits on it; the background
\* service runs until it is told to quit.)
ProcExit(i, k) ==
    /\ procs[i][k].alive
    /\ procs[i][k].site \notin {"service", "run"}
    /\ procs' = [procs EXCEPT ![i][k].alive = FALSE]
    /\ UNCHANGED <<sm, drv, mn, workloads, delay, launchers, now, svc, mpc, mi, mh, wpc, wwake,
                   wproc, wt0, wtf, poolStart, mapped, results, hist, calls>>

Next ==
    \/ PreflightCall
    \/ PreflightSettle
    \/ PreflightWait
    \/ StartPool
    \/ \E i \in 1..N : WorkerRun(i)
    \/ \E i \in 1..N : WorkerStamp0(i)
    \/ \E i \in 1..N : WorkerDone(i)
    \/ PoolJoin
    \/ PoolRaise
    \/ Settle
    \/ TeardownCall
    \/ TeardownQuit
    \/ TeardownSettle
    \/ TeardownWait
    \/ Return
    \/ Tick
    \/ \E i \in 1..N : \E k \in 1..Len(procs[i]) : ProcExit(i, k)

Spec == Init /\ [][Next]_vars

\* The threads of the program keep running and the subprocesses that are
\* waited on exit: a step that can be taken is taken.  The tasks are started
\* with the largest delay between them.
InitLive == Init /\ delay = MaxDelay
SpecLive == InitLive /\ [][Next]_vars /\ WF_vars(Next)

\* ------------------------------------------- direct use of one launcher
\* Extra keyword arguments a caller passes to run() or teardown().
NoExtra == <<>>
Verbose == <<[key |-> "verbose", isbool |-> TRUE, bval |-> TRUE, sval |-> ""]>>
IoDepth == <<[key |-> "iodepth", isbool |-> FALSE, bval |-> FALSE, sval |-> "4"]>>

\* The argument lists <<access, pattern, extra>> the caller picks from.
DirectRunArgs == { <<"write", "bw", NoExtra>>, <<"write", "bw", Verbose>>,
                   <<"write", "bw", IoDepth>>, <<"write", "iops", NoExtra>>,
                   <<"bogus", "bw", NoExtra>>, <<"write", "bogus", NoExtra>> }
DirectTeardownArgs == { <<"write", "bw", NoExtra>>, <<"write", "bw", IoDepth>> }

\* One launcher, just constructed, its streams as the caller set them.
InitCalls ==
    /\ \E kind \in Kinds, test \in BOOLEAN, hasClean \in BOOLEAN,
          out \in {None, OutFileOf(1)} :
          launchers = <<[NewLauncher(kind, HostsOf(1), PpnOf(1), OutputDirOf(1),
                                     TimelimitOf(1), TRUE, test, hasClean)
                            EXCEPT !.stdout = out, !.stderr = out]>>
    /\ workloads = <<[access |-> "write", pattern |-> "bw"]>>
    /\ delay = 0
    /\ procs = <<<<>>>>
    /\ svc = <<"NotStarted">>
    /\ wpc = <<"idle">>
    /\ wwake = <<0>>
    /\ wproc = <<NoHandle>>
    /\ wt0 = <<NoStamp>>
    /\ wtf = <<NoStamp>>
    /\ now = 0
    /\ mpc = "direct"
    /\ mi = 1
    /\ mh = NoHandle
    /\ poolStart = NoStamp
    /\ mapped = <<>>
    /\ results = <<>>
    /\ hist = NoHist
    /\ calls = NoCalls
    /\ drv = NoDrv
    /\ mn = NoMain
    /\ sm = NoSummary

\* The record of a call: what it was, how it ended, how many command lines
\* it logged; for a run that returned, the token sequence it assembled and,
\* per argument list, the first token sequence assembled for it.
Called(op, args, before, after, raised, handle) ==
    LET cmd == IF Len(after.log) > 0 THEN after.log[Len(after.log)] ELSE <<>>
        ran == op = "run" /\ ~raised
    IN  [ n |-> calls.n + 1, op |-> op, raised |-> raised, handle |-> handle,
          logged |-> Len(after.log) - Len(before.log),
          args |-> args,
          prev |-> before.cmdline,
          last |-> IF ran THEN cmd ELSE <<>>,
          first |-> IF ran /\ args \notin DOMAIN calls.first
                    THEN (args :> cmd) @@ calls.first
                    ELSE calls.first ]

\* launcher.run(access, pattern, **extra)
CallRun(access, pattern, extra) ==
    /\ mpc = "direct" /\ calls.n < MaxCalls
    /\ LET l == launchers[1]
           r == Run(l, access, pattern, DEFAULT, DEFAULT, extra)
       IN  /\ launchers' = [launchers EXCEPT ![1] = r.l]
           /\ procs' = IF r.popen THEN Popen(1, "run", r.cmd, r.out, r.err) ELSE procs
           /\ calls' = Called("run", <<access, pattern, extra>>, l, r.l, r.raised, r.popen)
    /\ UNCHANGED <<sm, drv, mn, workloads, delay, now, svc, mpc, mi, mh, wpc, wwake, wproc, wt0,
                   wtf, poolStart, mapped, results, hist>>

\* launcher.preflight(), to its return.
CallPreflight ==
    /\ mpc = "direct" /\ calls.n < MaxCalls
    /\ LET l == launchers[1]
           logged == LogCmd(l, PreflightCmd(l))
           started == [logged EXCEPT !.cmdline = <<>>]
       IN  IF ~OverridesLifecycle(l)
           THEN /\ calls' = Called("preflight", <<>>, l, l, FALSE, FALSE)
                /\ UNCHANGED <<launchers, procs, svc, now>>
           ELSE IF l.test
           THEN /\ launchers' = [launchers EXCEPT ![1] = logged]
                /\ calls' = Called("preflight", <<>>, l, logged, FALSE, FALSE)
                /\ UNCHANGED <<procs, svc, now>>
           ELSE IF l.kind = "elbencho"
           THEN /\ launchers' = [launchers EXCEPT ![1] = started]
                /\ procs' = Popen(1, "service", logged.cmdline, PIPE, PIPE)
                /\ svc' = [svc EXCEPT ![1] = "Running"]
                /\ now' = now + ServiceSettle
                /\ calls' = Called("preflight", <<>>, l, started, FALSE, FALSE)
           ELSE /\ launchers' = [launchers EXCEPT ![1] = started]
                /\ procs' = Popen(1, "mdpre", logged.cmdline, PIPE, PIPE)
                /\ calls' = Called("preflight", <<>>, l, started, FALSE, TRUE)
                /\ UNCHANGED <<svc, now>>
    /\ UNCHANGED <<sm, drv, mn, workloads, delay, mpc, mi, mh, wpc, wwake, wproc, wt0, wtf,
                   poolStart, mapped, results, hist>>

\* launcher.teardown(access, pattern, **extra), to its return; the cleanup
\* process it waits for has exited by then.
CallTeardown(access, pattern, extra) ==
    /\ mpc = "direct" /\ calls.n < MaxCalls
    /\ LET l == launchers[1]
           args == <<access, pattern, extra>>
       IN  IF ~OverridesLifecycle(l)
           THEN /\ calls' = Called("teardown", args, l, l, FALSE, FALSE)
                /\ UNCHANGED <<launchers, procs, svc, now>>
           ELSE IF l.kind = "elbencho"
           THEN LET r == ElbenchoClean(l, pattern, extra)
                    quit == LogCmd(r.l, QuitCmd(r.l))
                    after == IF l.test THEN quit ELSE [quit EXCEPT !.cmdline = <<>>]
                    cleaned == IF r.popen
                               THEN [Popen(1, "clean", r.cmd, r.out, r.err)
                                        EXCEPT ![1][Len(procs[1]) + 1].alive = FALSE]
                               ELSE procs
                IN  IF r.raised
                    THEN /\ launchers' = [launchers EXCEPT ![1] = r.l]
                         /\ calls' = Called("teardown", args, l, r.l, TRUE, FALSE)
                         /\ UNCHANGED <<procs, svc, now>>
                    ELSE /\ launchers' = [launchers EXCEPT ![1] = after]
                         /\ calls' = Called("teardown", args, l, after, FALSE, ~l.test)
                         /\ IF l.test
                            THEN UNCHANGED <<procs, svc, now>>
                            ELSE /\ procs' = [cleaned EXCEPT ![1] = Append(@,
                                        [site |-> "quit", cmd |-> quit.cmdline,
                                         out |-> PIPE, err |-> PIPE, alive |-> TRUE,
                                         t |-> now, svcAt |-> svc[1]])]
                                 /\ svc' = [svc EXCEPT ![1] = "Stopped"]
                                 /\ now' = now + QuitSettle
           ELSE LET logged == LogCmd(l, MdTeardownCmd(l))
                    started == [logged EXCEPT !.cmdline = <<>>]
                IN  IF l.test
                    THEN /\ launchers' = [launchers EXCEPT ![1] = logged]
                         /\ calls' = Called("teardown", args, l, logged, FALSE, FALSE)
                         /\ UNCHANGED <<procs, svc, now>>
                    ELSE /\ launchers' = [launchers EXCEPT ![1] = started]
                         /\ procs' = Popen(1, "mdpost", logged.cmdline, PIPE, PIPE)
                         /\ now' = now + MdSettle
                         /\ calls' = Called("teardown", args, l, started, FALSE, TRUE)
                         /\ UNCHANGED svc
    /\ UNCHANGED <<sm, drv, mn, workloads, delay, mpc, mi, mh, wpc, wwake, wproc, wt0, wtf,
                   poolStart, mapped, results, hist>>

NextCalls ==
    \/ \E a \in DirectRunArgs : CallRun(a[1], a[2], a[3])
    \/ CallPreflight
    \/ \E a \in DirectTeardownArgs : CallTeardown(a[1], a[2], a[3])

SpecCalls == InitCalls /\ [][NextCalls]_vars

\* ------------------------------------------------ the interference drivers
\* Largest number of descriptors handed to run_symmetric_interference.
MaxWorkloads == 3

Uppers == <<"A", "B", "C", "D", "E", "F", "G", "H", "I", "J", "K", "L", "M",
            "N", "O", "P", "Q", "R", "S", "T", "U", "V", "W", "X", "Y", "Z">>
Lowers == <<"a", "b", "c", "d", "e", "f", "g", "h", "i", "j", "k", "l", "m",
            "n", "o", "p", "q", "r", "s", "t", "u", "v", "w", "x", "y", "z">>

\* str.lower(), a string being the sequence of its characters.
Lower(str) ==
    [k \in 1..Len(str) |->
        IF \E u \in 1..26 : Uppers[u] = str[k]
        THEN Lowers[CHOOSE u \in 1..26 : Uppers[u] = str[k]]
        ELSE str[k]]

\* The isolate arguments run_interference is called with.
Selectors == { <<"p", "r", "i", "m", "a", "r", "y">>,
               <<"s", "e", "c", "o", "n", "d", "a", "r", "y">>,
               <<"b", "o", "t", "h">>,
               <<"B", "o", "t", "h">>,
               <<"s">>,
               <<"b", "o", "g", "u", "s">>,
               <<"n", "o", "n", "e">>,
               <<>> }

\* A descriptor key that has not been set, and a count that has not.
Unset == "unset"
NoCount == 0 - 1

\* Mutant: "both" isolates the secondary before the primary.
IsolatedRunsSecondaryFirst(isolate) ==
    IF Len(isolate) = 0 THEN [exc |-> "IndexError", runs |-> <<>>]
    ELSE LET c == Lower(isolate)[1]
         IN  IF c = "b" THEN [exc |-> None, runs |-> <<2, 1>>]
             ELSE IF c = "p" THEN [exc |-> None, runs |-> <<1>>]
             ELSE IF c = "s" THEN [exc |-> None, runs |-> <<2>>]
             ELSE [exc |-> "ValueError", runs |-> <<>>]

\* Lines 618-627 of run_interference: isolate.lower()[0] picks isolated_runs
\* (1: primary, 2: secondary), or the function raises.
IsolatedRuns(isolate) ==
    IF Len(isolate) = 0 THEN [exc |-> "IndexError", runs |-> <<>>]
    ELSE LET c == Lower(isolate)[1]
         IN  IF c = "b" THEN [exc |-> None, runs |-> <<1, 2>>]
             ELSE IF c = "p" THEN [exc |-> None, runs |-> <<1>>]
             ELSE IF c = "s" THEN [exc |-> None, runs |-> <<2>>]
             ELSE [exc |-> "ValueError", runs |-> <<>>]

\* os.environ.get("SLURM_JOBID", str(int(time.time()))), the clock read
\* being t.
JobId(env, t) == IF env = None THEN ToString(t) ELSE env

\* Mutant: the two node counts change places in the name.
OutputFilenameSwapped(d) ==
    d.workload \o "_" \o d.contention \o "." \o ToString(d.snodes) \o "p-"
        \o ToString(d.pnodes) \o "s." \o d.jobid \o ".out"

\* OUTPUT_FILENAME.format(**workload)
OutputFilename(d) ==
    d.workload \o "_" \o d.contention \o "." \o ToString(d.pnodes) \o "p-"
        \o ToString(d.snodes) \o "s." \o d.jobid \o ".out"

\* workload["launcher"].set_stdout(open(OUTPUT_FILENAME.format(**workload), "a"))
\* and set_stderr(get_stdout()) for descriptor r: one more file is opened and
\* both streams of the launcher are that file object.
OpenOutput(dv, r) ==
    LET name == OutputFilename(dv.desc[r])
    IN  [dv EXCEPT !.files = Append(@, name),
                   !.ls[r].stdout = name, !.ls[r].stderr = name,
                   !.out[r] = Len(dv.files) + 1, !.errf[r] = Len(dv.files) + 1]

\* Mutant: the contention label is left as it was.
LabelledNot(dv, rs, contention) == dv

\* workload["contention"] = contention for every descriptor in rs.
Labelled(dv, rs, contention) ==
    [dv EXCEPT !.desc = [r \in 1..Len(dv.desc) |->
        IF \E k \in 1..Len(rs) : rs[k] = r
        THEN [dv.desc[r] EXCEPT !.contention = contention]
        ELSE dv.desc[r]]]

RECURSIVE NoisyOutputs(_, _)
\* "Set up appropriate labels for noisy workloads": each descriptor in rs, in
\* order, is labelled noisy and gets its output file.
NoisyOutputs(dv, rs) ==
    IF Len(rs) = 0 THEN dv
    ELSE NoisyOutputs(OpenOutput(Labelled(dv, <<rs[1]>>, "noisy"), rs[1]), Tail(rs))

\* run_launchers(*[descriptors cur], delay=dly) is entered by the driver dv.
CallRunLaunchers(dv, cur, dly) ==
    /\ workloads' = [k \in 1..Len(cur) |-> [access |-> dv.desc[cur[k]].access,
                                            pattern |-> dv.desc[cur[k]].pattern]]
    /\ launchers' = [k \in 1..Len(cur) |-> dv.ls[cur[k]]]
    /\ delay' = dly
    /\ procs' = [k \in 1..Len(cur) |-> <<>>]
    /\ svc' = [k \in 1..Len(cur) |-> "NotStarted"]
    /\ wpc' = [k \in 1..Len(cur) |-> "idle"]
    /\ wwake' = [k \in 1..Len(cur) |-> 0]
    /\ wproc' = [k \in 1..Len(cur) |-> NoHandle]
    /\ wt0' = [k \in 1..Len(cur) |-> NoStamp]
    /\ wtf' = [k \in 1..Len(cur) |-> NoStamp]
    /\ mpc' = "preflight" /\ mi' = 1 /\ mh' = NoHandle
    /\ poolStart' = NoStamp /\ mapped' = <<>> /\ results' = <<>>
    /\ hist' = NoHist
    /\ drv' = [dv EXCEPT !.cur = cur,
                         !.invs = Append(@, [who |-> cur,
                                             labels |-> [k \in 1..Len(cur) |->
                                                            dv.desc[cur[k]].contention],
                                             delay |-> dly, done |-> FALSE])]
    /\ UNCHANGED <<now, calls, mn, sm>>

\* The descriptor dict(launcher=..., workload=role, access=..., pattern=...)
\* a driver is given.
Descriptor(role, access, pattern) ==
    [ workload |-> role, access |-> access, pattern |-> pattern,
      jobid |-> Unset, nnodes |-> NoCount, pnodes |-> NoCount, snodes |-> NoCount,
      contention |-> Unset ]

RoleOf(i) == IF i = 1 THEN "primary" ELSE IF i = 2 THEN "secondary" ELSE "third"

\* The driver before its first statement, given its descriptors and their
\* launchers.
NewDriver(fn, desc, ls, isolate, dly, env) ==
    [ fn |-> fn, pc |-> IF fn = "run_interference" THEN "select" ELSE "labels",
      exc |-> None, isolate |-> isolate, delay |-> dly, env |-> env,
      desc |-> desc, ls |-> ls,
      out |-> [i \in 1..Len(ls) |-> 0], errf |-> [i \in 1..Len(ls) |-> 0],
      runs |-> <<>>, k |-> 0, cur |-> <<>>, files |-> <<>>, invs |-> <<>>,
      mark |-> 0 ]

\* Access and pattern of the second descriptor: main's defaults, or an access
\* the tool configuration does not have.
DriverKeys == { [access |-> "write", pattern |-> "iops"],
                [access |-> "bogus", pattern |-> "bw"] }

\* run_interference(primary, secondary, delay, isolate) or
\* run_symmetric_interference(*workloads) is entered.
InitDriver ==
    /\ \E fn \in {"run_interference", "run_symmetric_interference"},
          n \in 1..MaxWorkloads, test \in BOOLEAN, hasClean \in BOOLEAN,
          key2 \in DriverKeys, isolate \in Selectors, dly \in 0..MaxDelay,
          env \in {None, "123"} :
        \E kinds \in [1..n -> Kinds] :
            /\ fn = "run_interference" => n = 2
            /\ fn = "run_symmetric_interference" => isolate = <<>> /\ dly = 0
            /\ ~hasClean => \E i \in 1..n : kinds[i] = "elbencho"
            /\ drv = NewDriver(fn,
                   [i \in 1..n |->
                       IF i = 2 THEN Descriptor(RoleOf(i), key2.access, key2.pattern)
                       ELSE Descriptor(RoleOf(i), "write", "bw")],
                   [i \in 1..n |->
                       NewLauncher(kinds[i], HostsOf(i), PpnOf(i), OutputDirOf(i),
                                   TimelimitOf(i), TRUE, test, hasClean)],
                   isolate, dly, env)
    /\ workloads = <<>> /\ launchers = <<>> /\ delay = 0
    /\ procs = <<>> /\ svc = <<>>
    /\ wpc = <<>> /\ wwake = <<>> /\ wproc = <<>> /\ wt0 = <<>> /\ wtf = <<>>
    /\ now = 0
    /\ mpc = "idle" /\ mi = 1 /\ mh = NoHandle
    /\ poolStart = NoStamp /\ mapped = <<>> /\ results = <<>>
    /\ hist = NoHist
    /\ calls = NoCalls
    /\ mn = NoMain
    /\ sm = NoSummary

SchedulerVars == <<workloads, delay, launchers, procs, now, svc, mpc, mi, mh, wpc,
                   wwake, wproc, wt0, wtf, poolStart, mapped, results, hist, calls>>

\* The loop "Initialize labels" evaluates time.time() once for every
\* descriptor it is used for: the second of the clock may change between two
\* passes.  The passes up to number same read the second now, the later
\* ones the next second.
SameSecond(dv, n) == IF dv.env = None THEN 1..n ELSE {n}

\* "Initialize labels" of both drivers: jobid and nnodes of the descriptors
\* rs, set one descriptor after the other.
InitLabels(dv, rs, same) ==
    [dv EXCEPT !.desc = [r \in 1..Len(dv.desc) |->
        IF \E k \in 1..Len(rs) : rs[k] = r
        THEN LET k == CHOOSE k \in 1..Len(rs) : rs[k] = r
             IN  [dv.desc[r] EXCEPT
                    !.jobid = JobId(dv.env, IF k <= same THEN now ELSE now + 1),
                    !.nnodes = Len(dv.ls[r].hosts)]
        ELSE dv.desc[r]]]

\* The scheduler's variables other than the clock.
SchedulerVarsButNow == <<workloads, delay, launchers, procs, svc, mpc, mi, mh, wpc,
                         wwake, wproc, wt0, wtf, poolStart, mapped, results, hist,
                         calls>>

\* run_interference, lines 618-627: the isolation selector is decoded.
RiSelect ==
    /\ drv.fn = "run_interference" /\ drv.pc = "select"
    /\ LET sel == IsolatedRuns(drv.isolate)
       IN  drv' = IF sel.exc # None
                  THEN [drv EXCEPT !.pc = "raised", !.exc = sel.exc]
                  ELSE [drv EXCEPT !.pc = "labels", !.runs = sel.runs]
    /\ UNCHANGED <<SchedulerVars, mn, sm>>

\* run_interference, lines 629-636: jobid, nnodes, pnodes, snodes.
RiLabels ==
    /\ drv.fn = "run_interference" /\ drv.pc = "labels"
    /\ \E same \in SameSecond(drv, 2) :
          /\ LET d1 == InitLabels(drv, <<1, 2>>, same)
             IN  drv' = [d1 EXCEPT !.desc = [r \in 1..2 |->
                             [d1.desc[r] EXCEPT !.pnodes = d1.desc[1].nnodes,
                                                !.snodes = d1.desc[2].nnodes]],
                                   !.pc = "quiet", !.k = 1]
          /\ now' = IF same < 2 THEN now + 1 ELSE now
    /\ UNCHANGED <<SchedulerVarsButNow, mn, sm>>

\* run_interference, lines 639-644: the next isolated workload is labelled
\* quiet, gets its output file and run_launchers(workload) is entered.
RiQuiet ==
    /\ drv.fn = "run_interference" /\ drv.pc = "quiet"
    /\ LET r == drv.runs[drv.k]
           d1 == Labelled(drv, <<r>>, "quiet")
           d2 == OpenOutput(d1, r)
       IN  CallRunLaunchers([d2 EXCEPT !.pc = "in_quiet"], <<r>>, 0)

\* run_interference, lines 652-659: both workloads are labelled noisy, get
\* their output files and run_launchers(primary, secondary, delay=delay) is
\* entered.
RiNoisy ==
    /\ drv.fn = "run_interference" /\ drv.pc = "noisy"
    /\ LET d2 == NoisyOutputs(drv, <<1, 2>>)
       IN  CallRunLaunchers([d2 EXCEPT !.pc = "in_noisy"], <<1, 2>>, drv.delay)

\* run_symmetric_interference, lines 547-549: jobid and nnodes.
SymLabels ==
    /\ drv.fn = "run_symmetric_interference" /\ drv.pc = "labels"
    /\ \E same \in SameSecond(drv, Len(drv.desc)) :
          /\ drv' = [InitLabels(drv, [r \in 1..Len(drv.desc) |-> r], same)
                        EXCEPT !.pc = "check"]
          /\ now' = IF same < Len(drv.desc) THEN now + 1 ELSE now
    /\ UNCHANGED <<SchedulerVarsButNow, mn, sm>>

\* Mutant: any number of workloads is let through.
TooManyWorkloadsNever(dv) == FALSE

\* len(workloads) > 2
TooManyWorkloads(dv) == Len(dv.desc) > 2

\* run_symmetric_interference, lines 551-552.
SymCheck ==
    /\ drv.fn = "run_symmetric_interference" /\ drv.pc = "check"
    /\ drv' = IF TooManyWorkloads(drv)
              THEN [drv EXCEPT !.pc = "raised", !.exc = "NotImplementedError"]
              ELSE [drv EXCEPT !.pc = "quiet", !.k = 1,
                               !.runs = [r \in 1..Len(drv.desc) |-> r]]
    /\ UNCHANGED <<SchedulerVars, mn, sm>>

\* run_symmetric_interference, lines 555-562: pnodes, snodes and the quiet
\* label of the next workload, its output file, run_launchers(workload).
\* workloads[1] fails with IndexError when one descriptor was given.
SymQuiet ==
    /\ drv.fn = "run_symmetric_interference" /\ drv.pc = "quiet"
    /\ LET r == drv.runs[drv.k]
           d0 == [drv EXCEPT !.desc[r].pnodes = drv.desc[1].nnodes]
       IN  IF Len(drv.desc) < 2
           THEN /\ drv' = [d0 EXCEPT !.pc = "raised", !.exc = "IndexError"]
                /\ UNCHANGED <<SchedulerVars, mn, sm>>
           ELSE LET d1 == [d0 EXCEPT !.desc[r].snodes = drv.desc[2].nnodes]
                    d2 == OpenOutput(Labelled(d1, <<r>>, "quiet"), r)
                IN  CallRunLaunchers([d2 EXCEPT !.pc = "in_quiet"], <<r>>, 0)

\* run_symmetric_interference, lines 569-576: every workload is labelled
\* noisy and gets its output file, run_launchers(*workloads) is entered.
SymNoisy ==
    /\ drv.fn = "run_symmetric_interference" /\ drv.pc = "noisy"
    /\ LET all == [r \in 1..Len(drv.desc) |-> r]
           d2 == NoisyOutputs(drv, all)
       IN  CallRunLaunchers([d2 EXCEPT !.pc = "in_noisy"], all, 0)

\* The launchers of the driver after the scheduler invocation used them.
LaunchersBack(dv) ==
    [r \in 1..Len(dv.ls) |->
        IF \E k \in 1..Len(dv.cur) : dv.cur[k] = r
        THEN launchers[CHOOSE k \in 1..Len(dv.cur) : dv.cur[k] = r]
        ELSE dv.ls[r]]

\* timestamps = run_launchers(...) returned: the duration is logged; the
\* quiet loop goes on with its next workload or gives way to the noisy phase,
\* the noisy phase ends the driver.
DriverReturn ==
    /\ drv.pc \in {"in_quiet", "in_noisy"}
    /\ mpc = "returned"
    /\ drv' = [drv EXCEPT
          !.ls = LaunchersBack(drv),
          !.invs[Len(drv.invs)].done = TRUE,
          !.mark = Len(drv.files),
          !.pc = IF drv.pc = "in_noisy" THEN "done"
                 ELSE IF drv.k < Len(drv.runs) THEN "quiet" ELSE "noisy",
          !.k = IF drv.pc = "in_quiet" THEN drv.k + 1 ELSE drv.k]
    /\ mpc' = "idle"
    /\ UNCHANGED <<workloads, delay, launchers, procs, now, svc, mi, mh, wpc,
                   wwake, wproc, wt0, wtf, poolStart, mapped, results, hist, calls, mn, sm>>

\* run_launchers was left by an exception: it leaves the driver as well.
DriverRaise ==
    /\ drv.pc \in {"in_quiet", "in_noisy"}
    /\ mpc = "raised"
    /\ drv' = [drv EXCEPT !.ls = LaunchersBack(drv), !.pc = "raised",
                          !.exc = "KeyError"]
    /\ UNCHANGED <<SchedulerVars, mn, sm>>

NextDriver ==
    \/ RiSelect
    \/ RiLabels
    \/ RiQuiet
    \/ RiNoisy
    \/ SymLabels
    \/ SymCheck
    \/ SymQuiet
    \/ SymNoisy
    \/ DriverReturn
    \/ DriverRaise
    \/ Next

SpecDriver == InitDriver /\ [][NextDriver]_vars

\* --------------------------------------- assembly of the run command line
\* An extra keyword argument whose value is the boolean False.
Quiet == <<[key |-> "quiet", isbool |-> TRUE, bval |-> FALSE, sval |-> ""]>>

\* The argument lists <<access, pattern, extra>> run() is called with.
AssemblyArgs == { <<"write", "bw", NoExtra>>, <<"write", "iops", Verbose>>,
                  <<"write", "iops", IoDepth>>, <<"write", "bw", Quiet>>,
                  <<"bogus", "bw", NoExtra>> }

\* The output_dir argument of the constructor: one directory or a list.
OutputDirs == { OutputDirOf(1), OutputDirOf(1) \o OutputDirOf(2) }

\* One launcher as its constructor leaves it, for every adapter, with and
\* without a time limit, random data and an output file as stdout.
InitAssembly ==
    /\ \E kind \in Kinds, test \in BOOLEAN, random_data \in BOOLEAN,
          timelimit \in {0, TimelimitOf(1)}, output_dir \in OutputDirs,
          out \in {None, OutFileOf(1)} :
          launchers = <<[NewLauncher(kind, HostsOf(1), PpnOf(1), output_dir,
                                     timelimit, random_data, test, TRUE)
                            EXCEPT !.stdout = out, !.stderr = out]>>
    /\ workloads = <<[access |-> "write", pattern |-> "bw"]>>
    /\ delay = 0
    /\ procs = <<<<>>>>
    /\ svc = <<"NotStarted">>
    /\ wpc = <<"idle">>
    /\ wwake = <<0>>
    /\ wproc = <<NoHandle>>
    /\ wt0 = <<NoStamp>>
    /\ wtf = <<NoStamp>>
    /\ now = 0
    /\ mpc = "direct"
    /\ mi = 1
    /\ mh = NoHandle
    /\ poolStart = NoStamp
    /\ mapped = <<>>
    /\ results = <<>>
    /\ hist = NoHist
    /\ calls = NoCalls
    /\ drv = NoDrv
    /\ mn = NoMain
    /\ sm = NoSummary

NextAssembly == \E a \in AssemblyArgs : CallRun(a[1], a[2], a[3])

SpecAssembly == InitAssembly /\ [][NextAssembly]_vars

\* -------------------------------------------------------------- main
\* Largest number of nodes get_nodes returns, largest --step.
MaxNodes == 3
MaxStep == 2

\* get_nodes(): distinct host names, cgpu00, cgpu01, ...
NodeList(n) == [i \in 1..n |-> "cgpu0" \o ToString(i - 1)]

\* The keys a tool's section of the configuration can have.
ToolKeys == {"binary", "common_args", "access_args", "pattern_args",
             "access_pattern_args", "random_data_args", "timelimit_args"}

\* Mutant: timelimit_args is read with a default, like random_data_args.
RequiredKeysNoTimelimit == {"binary", "common_args", "access_args", "pattern_args"}

\* The keys _init_args reads with self._config[key][...]: a KeyError when
\* one is missing.
RequiredKeys == {"binary", "common_args", "access_args", "pattern_args",
                 "timelimit_args"}

\* The tools that have a section in the configuration.
Tools == {"ior", "elbencho", "md-workbench"}

\* The configurations load_config returns: keys[tool] are the keys of the
\* tool's section (every section complete, or one key missing from one
\* section); tokenized holds the tools whose access_pattern_args strings an
\* earlier _init_args has already replaced by token lists (the inner
\* dictionaries are shared with the configuration by the shallow copy).
Configs ==
    { [keys |-> [t \in Tools |-> ToolKeys], tokenized |-> {}] } \cup
    { [keys |-> [t \in Tools |-> IF t = tool THEN ToolKeys \ {k} ELSE ToolKeys],
       tokenized |-> {}] : tool \in Tools, k \in ToolKeys }

\* No launcher object.
NoLauncher == [kind |-> "none"]

\* workload_N(output_dir=..., config=config, hosts=..., ...): the adapter's
\* constructor with _init_args.  It raises KeyError at the first required
\* key the section lacks, and AttributeError (str method on a list) when the
\* section's access_pattern_args were tokenized by an earlier construction.
Construct(kind, cfg, hosts, ppn, output_dir, timelimit, random_data, test) ==
    LET built == NewLauncher(kind, hosts, ppn, output_dir, timelimit,
                             random_data, test, TRUE)
        hasOverride == "access_pattern_args" \in cfg.keys[kind]
    IN  IF ~(RequiredKeys \subseteq cfg.keys[kind])
        THEN [exc |-> "KeyError", l |-> NoLauncher, cfg |-> cfg]
        ELSE IF hasOverride /\ kind \in cfg.tokenized
        THEN [exc |-> "AttributeError", l |-> NoLauncher, cfg |-> cfg]
        ELSE [exc |-> None,
              l |-> [built EXCEPT
                       !.access_pattern_args = IF hasOverride THEN @ ELSE <<>>,
                       !.random_data_args =
                           IF "random_data_args" \in cfg.keys[kind] THEN @ ELSE <<>>],
              cfg |-> IF hasOverride
                      THEN [cfg EXCEPT !.tokenized = @ \cup {kind}]
                      ELSE cfg]

\* Mutant: the secondary partition starts one node early.
Nodes2Overlap(node_list, num_primary) ==
    SubSeq(node_list, num_primary, Len(node_list))

\* node_list[:num_primary] and node_list[num_primary:]
Nodes1(node_list, num_primary) == SubSeq(node_list, 1, num_primary)
Nodes2(node_list, num_primary) == SubSeq(node_list, num_primary + 1, Len(node_list))

\* --primary-workload / --secondary-workload
MainWorkloads == { <<"ior", "ior">>, <<"elbencho", "md-workbench">>,
                   <<"md-workbench", "elbencho">> }

Selector(isolate_both) == IF isolate_both THEN <<"b", "o", "t", "h">>
                          ELSE <<"s", "e", "c", "o", "n", "d", "a", "r", "y">>

\* SLURM_JOBID of the job main runs in: node lists of these sizes come from
\* the job's SLURM_JOB_NODELIST (without a job get_nodes returns its eight
\* default hosts).
SlurmJobId == "123"

\* main after the arguments are parsed, the configuration is loaded and the
\* node list is known.
InitMain ==
    /\ \E n \in 1..MaxNodes, step \in 1..MaxStep, cfg \in Configs,
          w \in MainWorkloads, test \in BOOLEAN, isolate_both \in BOOLEAN,
          dly \in 0..MaxDelay, key2 \in DriverKeys :
          mn = [ pc |-> "loop", exc |-> None, node_list |-> NodeList(n),
                 step |-> step, config |-> cfg, workload_1 |-> w[1],
                 workload_2 |-> w[2], test |-> test,
                 isolate |-> Selector(isolate_both), delay |-> dly,
                 key2 |-> key2, env |-> SlurmJobId, num_primary |-> n, iter |-> 0,
                 nodes_1 |-> <<>>, nodes_2 |-> <<>>,
                 primary |-> NoLauncher, secondary |-> NoLauncher ]
    /\ drv = NoDrv
    /\ sm = NoSummary
    /\ workloads = <<>> /\ launchers = <<>> /\ delay = 0
    /\ procs = <<>> /\ svc = <<>>
    /\ wpc = <<>> /\ wwake = <<>> /\ wproc = <<>> /\ wt0 = <<>> /\ wtf = <<>>
    /\ now = 0
    /\ mpc = "idle" /\ mi = 1 /\ mh = NoHandle
    /\ poolStart = NoStamp /\ mapped = <<>> /\ results = <<>>
    /\ hist = NoHist
    /\ calls = NoCalls

\* for num_primary in range(num_nodes + node_step, 0, node_step): the next
\* value, and the two partitions of the node list (lines 722-727).
MainLoop ==
    /\ mn.pc = "loop"
    /\ LET next == mn.num_primary - mn.step
       IN  mn' = IF next > 0
                 THEN [mn EXCEPT !.num_primary = next, !.iter = @ + 1,
                                 !.nodes_1 = Nodes1(mn.node_list, next),
                                 !.nodes_2 = Nodes2(mn.node_list, next),
                                 !.pc = "primary"]
                 ELSE [mn EXCEPT !.pc = "done"]
    /\ UNCHANGED <<SchedulerVars, drv, sm>>

\* primary = workload_1(...), lines 729-736.
MainPrimary ==
    /\ mn.pc = "primary"
    /\ LET c == Construct(mn.workload_1, mn.config, mn.nodes_1, PpnOf(1),
                          OutputDirOf(1), TimelimitOf(1), TRUE, mn.test)
       IN  mn' = IF c.exc # None
                 THEN [mn EXCEPT !.pc = "raised", !.exc = c.exc]
                 ELSE [mn EXCEPT !.pc = "secondary", !.primary = c.l,
                                 !.config = c.cfg]
    /\ UNCHANGED <<SchedulerVars, drv, sm>>

\* secondary = workload_2(...), lines 738-745.
MainSecondary ==
    /\ mn.pc = "secondary"
    /\ LET c == Construct(mn.workload_2, mn.config, mn.nodes_2, PpnOf(2),
                          OutputDirOf(2), TimelimitOf(2), TRUE, mn.test)
       IN  mn' = IF c.exc # None
                 THEN [mn EXCEPT !.pc = "raised", !.exc = c.exc]
                 ELSE [mn EXCEPT !.pc = "run", !.secondary = c.l,
                                 !.config = c.cfg]
    /\ UNCHANGED <<SchedulerVars, drv, sm>>

\* run_interference(primary=dict(...), secondary=dict(...), isolate=isolate,
\* delay=args.delay) is entered, lines 747-751.
MainRun ==
    /\ mn.pc = "run"
    /\ drv' = NewDriver("run_interference",
                  << Descriptor("primary", "write", "bw"),
                     Descriptor("secondary", mn.key2.access, mn.key2.pattern) >>,
                  <<mn.primary, mn.secondary>>, mn.isolate, mn.delay, mn.env)
    /\ mn' = [mn EXCEPT !.pc = "in_run"]
    /\ UNCHANGED <<SchedulerVars, sm>>

\* run_interference returned: the loop goes on.
MainReturn ==
    /\ mn.pc = "in_run" /\ drv.pc = "done"
    /\ mn' = [mn EXCEPT !.pc = "loop"]
    /\ UNCHANGED <<SchedulerVars, drv, sm>>

\* run_interference raised: main is left by the exception.
MainRaise ==
    /\ mn.pc = "in_run" /\ drv.pc = "raised"
    /\ mn' = [mn EXCEPT !.pc = "raised", !.exc = drv.exc]
    /\ UNCHANGED <<SchedulerVars, drv, sm>>

NextMain ==
    \/ MainLoop
    \/ MainPrimary
    \/ MainSecondary
    \/ MainRun
    \/ MainReturn
    \/ MainRaise
    \/ RiSelect
    \/ RiLabels
    \/ RiQuiet
    \/ RiNoisy
    \/ DriverReturn
    \/ DriverRaise
    \/ Next

SpecMain == InitMain /\ [][NextMain]_vars

\* ------------------------------------------ interference_summary.py
\* Largest number of node-count pairs (rows) of the performance pivot.
MaxRows == 2

\* A float that is a number: the fraction num/den in lowest terms, den > 0.
\* NaN, the missing value of pandas, has den = 0.
NaN == [num |-> 0, den |-> 0]
IsNaN(x) == x.den = 0

Abs(i) == IF i < 0 THEN 0 - i ELSE i

RECURSIVE GCD(_, _)
GCD(a, b) == IF b = 0 THEN a ELSE GCD(b, a % b)

\* num/den (den # 0) in lowest terms.
Frac(num, den) ==
    LET g == GCD(Abs(num), Abs(den))
        sign == IF den < 0 THEN 0 - 1 ELSE 1
    IN  [num |-> sign * (num \div g), den |-> sign * (den \div g)]

Num(i) == [num |-> i, den |-> 1]

\* x - y, x * y and x / y of floats: NaN when an operand is NaN.  The
\* divisor is a performance value, which is positive.
Minus(x, y) == IF IsNaN(x) \/ IsNaN(y) THEN NaN
               ELSE Frac(x.num * y.den - y.num * x.den, x.den * y.den)
Times(x, y) == IF IsNaN(x) \/ IsNaN(y) THEN NaN
               ELSE Frac(x.num * y.num, x.den * y.den)
Over(x, y) == IF IsNaN(x) \/ IsNaN(y) THEN NaN
              ELSE Frac(x.num * y.den, x.den * y.num)

WorkloadIds == <<"primary", "secondary">>
Contentions == {"quiet", "noisy"}

\* The columns a performance pivot can have: (contention, workload_id).
AllColumns == {<<c, WorkloadIds[k]>> : c \in Contentions, k \in 1..2}

\* The mean performance values the pivot holds for a workload.
PerfValues(workload_id) == IF workload_id = "primary" THEN {Num(80), Num(100)}
                           ELSE {Num(50)}

\* The rows a pivot can have: a value or NaN under every column, and a value
\* under one column at least (a pair without any record has no row).
PivotRows ==
    { row \in [AllColumns -> {NaN, Num(50), Num(80), Num(100)}] :
        /\ \A c \in AllColumns : row[c] \in PerfValues(c[2]) \cup {NaN}
        /\ \E c \in AllColumns : ~IsNaN(row[c]) }

\* performance_frame: the pivot over raw, one row for each node-count pair
\* (sorted by primary_nodes), with the columns that hold a value in one row
\* at least (pivot_table drops the others).
PerformanceFrame(raw) ==
    LET columns == {c \in AllColumns : \E r \in 1..Len(raw) : ~IsNaN(raw[r][c])}
    IN  [ index |-> [r \in 1..Len(raw) |-> <<r, Len(raw) + 1 - r>>],
          columns |-> columns,
          data |-> [r \in 1..Len(raw) |-> [c \in columns |-> raw[r][c]]] ]

\* Mutant: the difference is divided by the noisy value.
LossValueOverNoisy(quiet, noisy) == Times(Minus(quiet, noisy), Over(Num(100), noisy))

\* Lines 54-55: loss = quiet - noisy; loss *= 100.0 / quiet.
LossValue(quiet, noisy) == Times(Minus(quiet, noisy), Over(Num(100), quiet))

\* Lines 52-57: the workloads for which neither row.loc[("quiet", w)] nor
\* row.loc[("noisy", w)] raises KeyError, that is, both columns exist.
LossKeys(performance, r) ==
    {WorkloadIds[k] : k \in {j \in 1..2 :
        /\ <<"quiet", WorkloadIds[j]>> \in performance.columns
        /\ <<"noisy", WorkloadIds[j]>> \in performance.columns}}

\* Lines 51-57: the loss dictionary of row r.
LossRecord(performance, r) ==
    [w \in LossKeys(performance, r) |->
        LossValue(performance.data[r][<<"quiet", w>>],
                  performance.data[r][<<"noisy", w>>])]

RECURSIVE LossRecords(_, _)
\* Lines 49-59: the dictionaries of the rows r.., the empty ones left out.
LossRecords(performance, r) ==
    IF r > Len(performance.index) THEN <<>>
    ELSE LET loss == LossRecord(performance, r)
             rest == LossRecords(performance, r + 1)
         IN  IF DOMAIN loss # {} THEN <<loss>> \o rest ELSE rest

\* Mutant: the records are attached to the index in reverse order.
FromRecordsReversed(losses, index) ==
    LET columns == UNION {DOMAIN losses[k] : k \in 1..Len(losses)}
        n == Len(index)
    IN  IF Len(losses) # 0 /\ Len(losses) # n
        THEN [exc |-> "ValueError"]
        ELSE [exc |-> None, index |-> index, columns |-> columns,
              data |-> [r \in 1..n |-> [c \in columns |->
                          IF c \in DOMAIN losses[n + 1 - r]
                          THEN losses[n + 1 - r][c] ELSE NaN]]]

\* pandas.DataFrame.from_records(losses, index=performance.index): record k
\* becomes row k, a key a record lacks is NaN; no record gives a table
\* without columns; another number of records than rows is a ValueError.
FromRecords(losses, index) ==
    LET columns == UNION {DOMAIN losses[k] : k \in 1..Len(losses)}
    IN  IF Len(losses) # 0 /\ Len(losses) # Len(index)
        THEN [exc |-> "ValueError"]
        ELSE [exc |-> None, index |-> index, columns |-> columns,
              data |-> [r \in 1..Len(index) |-> [c \in columns |->
                          IF c \in DOMAIN losses[r] THEN losses[r][c] ELSE NaN]]]

OtherVarsIdle ==
    /\ drv = NoDrv /\ mn = NoMain
    /\ workloads = <<>> /\ launchers = <<>> /\ delay = 0
    /\ procs = <<>> /\ svc = <<>>
    /\ wpc = <<>> /\ wwake = <<>> /\ wproc = <<>> /\ wt0 = <<>> /\ wtf = <<>>
    /\ now = 0
    /\ mpc = "idle" /\ mi = 1 /\ mh = NoHandle
    /\ poolStart = NoStamp /\ mapped = <<>> /\ results = <<>>
    /\ hist = NoHist
    /\ calls = NoCalls

\* loss_frame(performance_df) is entered with a pivot of performance_frame.
InitSummary ==
    /\ \E n \in 1..MaxRows : \E raw \in [1..n -> PivotRows] :
          sm = [ pc |-> "rows", exc |-> None,
                 performance |-> PerformanceFrame(raw),
                 losses |-> <<>>, loss |-> [exc |-> None] ]
    /\ OtherVarsIdle

\* Lines 49-59: the loop over the rows of the pivot.
LossRows ==
    /\ sm.pc = "rows"
    /\ sm' = [sm EXCEPT !.losses = LossRecords(sm.performance, 1), !.pc = "frame"]
    /\ UNCHANGED <<SchedulerVars, drv, mn>>

\* Lines 61-64: the table is built from the records and returned.
LossTable ==
    /\ sm.pc = "frame"
    /\ LET loss == FromRecords(sm.losses, sm.performance.index)
       IN  sm' = [sm EXCEPT !.loss = loss, !.exc = loss.exc,
                            !.pc = IF loss.exc = None THEN "returned" ELSE "raised"]
    /\ UNCHANGED <<SchedulerVars, drv, mn>>

NextSummary ==
    \/ LossRows
    \/ LossTable

SpecSummary == InitSummary /\ [][NextSummary]_vars

\* ------------------------------------------------------------- claims
\* seq names every descriptor exactly once.
OnePerDescriptor(seq) ==
    /\ Len(seq) = N
    /\ \A i \in 1..N : \E k \in 1..N : seq[k] = i

\* C1: all N preflight calls, one per descriptor, have returned before the
\* first launcher.run call begins; no teardown begins before every
\* launcher.run call has been made and has returned; a call that returns has
\* issued exactly N teardown calls, one per descriptor.
C1_PhaseOrder ==
    /\ Len(hist.preSeq) <= N /\ Len(hist.tdSeq) <= N
    /\ hist.runCalled # {} => OnePerDescriptor(hist.preSeq) /\ hist.preRet = N
    /\ hist.tdSeq # <<>> => hist.runReturned = 1..N
    /\ mpc = "returned" =>
          /\ OnePerDescriptor(hist.preSeq) /\ hist.preRet = N
          /\ OnePerDescriptor(hist.tdSeq) /\ hist.tdRet = N

C1_Witness ==
    /\ mpc = "returned" /\ N = 2
    /\ \A i \in 1..N : procs[i] # <<>>

\* C2: no teardown is invoked and run_launchers does not return until every
\* pool task has finished and the process of every handle a launcher.run call
\* returned has exited; the first teardown begins no sooner than the settle
\* delay after the last task finished.
C2_RunPhaseBlocks ==
    (hist.tdSeq # <<>> \/ mpc \in {"return", "returned"}) =>
        /\ \A i \in 1..N : wpc[i] = "done" /\ ~Alive(wproc[i])
        /\ \A i \in 1..N : hist.tdFirst >= wtf[i] + PoolSettle

C2_Witness ==
    /\ hist.tdSeq # <<>>
    /\ \A i \in 1..N : wproc[i] # NoHandle
    /\ N = 2

\* C3: the start timestamp of the workload at input index idx = i - 1 is at
\* least idx * delay seconds after the pool was started.
C3_StaggeredStart ==
    \A i \in 1..N : wt0[i] # NoStamp => wt0[i] >= poolStart + (i - 1) * delay

C3_Witness ==
    /\ N = 2 /\ delay > 0
    /\ wt0[2] # NoStamp /\ wt0[2] = poolStart + delay

\* C4: run_launchers returns N (start, end) pairs, the k-th being the pair
\* the task of the k-th descriptor measured, whatever order the tasks
\* finished in, and start <= end in every pair.
C4_ResultsInInputOrder ==
    mpc = "returned" =>
        /\ Len(results) = N
        /\ \A k \in 1..N : /\ results[k] = <<wt0[k], wtf[k]>>
                           /\ results[k][1] <= results[k][2]

\* The second task finished before the first one.
C4_Witness ==
    /\ mpc = "returned" /\ N = 2
    /\ wtf[2] < wtf[1]

\* A preflight or teardown call of the scheduler is in progress.
InSerialCall == Len(hist.preSeq) > hist.preRet \/ Len(hist.tdSeq) > hist.tdRet

\* C5: preflights and teardowns are invoked in input order; the next one is
\* not invoked before the previous one returned and the process of the handle
\* it returned exited; none of them, and none of their processes, runs while
\* another of them or a pool task runs.
C5_SerialPhases ==
    /\ \A k \in 1..Len(hist.preSeq) : hist.preSeq[k] = k
    /\ \A k \in 1..Len(hist.tdSeq) : hist.tdSeq[k] = k
    /\ \A k \in 2..Len(hist.preSeq) :
          hist.preRet >= k - 1 /\ ~Alive(hist.preHandle[k - 1])
    /\ \A k \in 2..Len(hist.tdSeq) :
          hist.tdRet >= k - 1 /\ ~Alive(hist.tdHandle[k - 1].h)
    /\ (Len(hist.preSeq) - hist.preRet) + (Len(hist.tdSeq) - hist.tdRet) <= 1
    /\ InSerialCall => \A i \in 1..N : wpc[i] \in {"idle", "done"}
    /\ \A i \in 1..N : \A k \in 1..Len(procs[i]) :
          (procs[i][k].alive /\ procs[i][k].site \in {"mdpre", "mdpost", "clean", "quit"})
              => /\ mi = i
                 /\ \A j \in 1..N : wpc[j] \in {"idle", "done"}

C5_Witness ==
    /\ Len(hist.preSeq) = 2 /\ hist.preHandle[1] # NoHandle
    /\ Len(hist.tdSeq) = 2 /\ hist.tdHandle[1].h # NoHandle

\* The launchers of the persistent-service adapter that are not in dry-run
\* mode.
RealElbencho == {i \in 1..N : launchers[i].kind = "elbencho" /\ ~launchers[i].test}

\* C8 (as claimed): when a task fails on an unknown access or pattern key, no
\* subprocess (service, benchmark or cleanup) has been started by this
\* invocation of run_launchers.
C8_UnknownKeyBeforeAnyProcess ==
    (\E i \in 1..N : wpc[i] = "raised") => \A j \in 1..N : procs[j] = <<>>

\* C9 (as claimed): a run is issued to an ElbenchoLauncher only while its
\* service is Running, and when run_launchers has returned the service of
\* every ElbenchoLauncher is Stopped.
C9_ServiceLifecycle ==
    \A i \in 1..N : launchers[i].kind = "elbencho" =>
        /\ i \in hist.runCalled => hist.runSvc[i] = "Running"
        /\ mpc = "returned" => svc[i] = "Stopped"

\* C9 (amended): the same for every ElbenchoLauncher that is not in dry-run
\* mode, the cleanup run of its teardown included; in dry-run mode no service
\* is started and it stays NotStarted.
C9_ServiceLifecycleReal ==
    /\ \A i \in RealElbencho :
        /\ i \in hist.runCalled => hist.runSvc[i] = "Running"
        /\ \A k \in 1..Len(procs[i]) :
              procs[i][k].site \in {"run", "clean"} => procs[i][k].svcAt = "Running"
        /\ mpc = "returned" => svc[i] = "Stopped"
    /\ \A i \in 1..N : launchers[i].test => svc[i] = "NotStarted"

C9_Witness ==
    /\ mpc = "returned"
    /\ RealElbencho = 1..N /\ N = 2
    /\ \A i \in 1..N : \E k \in 1..Len(procs[i]) : procs[i][k].site = "run"

\* C10: in ElbenchoLauncher.teardown (not dry-run) the --quit command is not
\* launched before the cleanup subprocess has exited, and the handle teardown
\* returns is the one of the --quit process, returned no sooner than the
\* settle delay after its launch.
C10_TeardownOrder ==
    \A i \in RealElbencho :
        /\ \A k \in 1..Len(procs[i]) : procs[i][k].site = "quit" =>
              \E j \in 1..(k - 1) : /\ procs[i][j].site = "clean"
                                    /\ ~procs[i][j].alive
                                    /\ procs[i][j].t <= procs[i][k].t
        /\ Len(hist.tdHandle) >= i =>
              LET ret == hist.tdHandle[i]
              IN  /\ ret.h # NoHandle /\ ret.h[1] = i
                  /\ procs[i][ret.h[2]].site = "quit"
                  /\ ret.t >= procs[i][ret.h[2]].t + QuitSettle

C10_Witness ==
    \E i \in RealElbencho : Len(hist.tdHandle) >= i

\* The launcher's command-line buffer holds the command line logged last.
BufferHoldsLogged(l) ==
    /\ l.cmdline # <<>>
    /\ l.log # <<>>
    /\ l.cmdline = l.log[Len(l.log)]

\* C6 (as claimed): in dry-run mode no call creates a subprocess or returns a
\* handle, and every call that returns has assembled a command line: it is
\* logged and left in the buffer.
C6_DryRunEveryCallAssembles ==
    launchers[1].test =>
        /\ procs[1] = <<>> /\ ~calls.handle
        /\ (calls.op # "none" /\ ~calls.raised) =>
              calls.logged >= 1 /\ BufferHoldsLogged(launchers[1])

\* C6 (amended): in dry-run mode no call creates a subprocess or returns a
\* handle; every run call, and every preflight and teardown call of
\* ElbenchoLauncher and MdworkbenchLauncher, that returns has logged its
\* command line and left it in the buffer; preflight and teardown of
\* IorLauncher assemble nothing and leave the buffer as it was.
C6_DryRun ==
    launchers[1].test =>
        /\ procs[1] = <<>> /\ ~calls.handle
        /\ (calls.op # "none" /\ ~calls.raised) =>
              IF launchers[1].kind = "ior" /\ calls.op \in {"preflight", "teardown"}
              THEN calls.logged = 0 /\ launchers[1].cmdline = calls.prev
              ELSE calls.logged >= 1 /\ BufferHoldsLogged(launchers[1])

C6_Witness ==
    /\ launchers[1].test /\ launchers[1].kind = "elbencho"
    /\ calls.op = "teardown" /\ ~calls.raised /\ calls.logged = 2
    /\ calls.n = 3

\* C7 (as claimed): a run call that returns assembles the token sequence the
\* first run call with the same arguments assembled, whatever was called in
\* between.
C7_AssemblyStateless ==
    (calls.op = "run" /\ ~calls.raised) => calls.last = calls.first[calls.args]

\* A direct preflight or teardown call is made in this step.
LifecycleCallStep ==
    /\ calls'.n = calls.n + 1
    /\ calls'.op \in {"preflight", "teardown"}

\* The step leaves the launcher as it was, starts no process and the call
\* returns no handle.
IdentityStep ==
    /\ launchers' = launchers
    /\ procs' = procs
    /\ ~calls'.handle

\* C11 (as claimed): preflight and teardown of IorLauncher and of
\* MdworkbenchLauncher are identity transitions: they launch no process and
\* return no handle, in dry-run and in real mode.
C11_SingleShotIdentity ==
    [][(LifecycleCallStep /\ launchers[1].kind \in {"ior", "md-workbench"})
          => IdentityStep]_vars

\* C11 (amended): preflight and teardown of IorLauncher are identity
\* transitions in both modes; preflight and teardown of MdworkbenchLauncher
\* are not: in real mode each starts one process and returns its handle, in
\* dry-run mode each starts none, returns none and logs its command line.
C11_IorSingleShot ==
    [][LifecycleCallStep =>
          /\ launchers[1].kind = "ior" => IdentityStep
          /\ launchers[1].kind = "md-workbench" =>
                IF launchers[1].test
                THEN /\ procs' = procs /\ ~calls'.handle
                     /\ calls'.logged = 1
                ELSE /\ Len(procs'[1]) = Len(procs[1]) + 1
                     /\ procs'[1][Len(procs'[1])].site \in {"mdpre", "mdpost"}
                     /\ calls'.handle]_vars

\* A real-mode IorLauncher whose run started a process, then torn down.
C11_Witness ==
    /\ launchers[1].kind = "ior" /\ ~launchers[1].test
    /\ calls.op = "teardown" /\ calls.n = 3
    /\ Len(procs[1]) = 1

\* ---------------------------------------------- claims about the drivers
Primary == <<"p", "r", "i", "m", "a", "r", "y">>
Secondary == <<"s", "e", "c", "o", "n", "d", "a", "r", "y">>
Both == <<"b", "o", "t", "h">>

\* The selector is one of the legal values, whatever its case.
LegalSelector(isolate) == Lower(isolate) \in {Primary, Secondary, Both}

\* The workloads a legal selector selects, in the order they are run quiet.
Selected(isolate) ==
    IF Lower(isolate) = Primary THEN <<1>>
    ELSE IF Lower(isolate) = Secondary THEN <<2>>
    ELSE <<1, 2>>

\* The scheduler invocations made so far are the quiet runs of the
\* descriptors quiet, one each and in that order, followed by (at most) one
\* run of both descriptors labelled noisy with delay dly; every invocation
\* but the last has returned, after its teardowns.
QuietThenNoisy(quiet, dly) ==
    /\ Len(drv.invs) <= Len(quiet) + 1
    /\ \A j \in 1..Len(drv.invs) :
          IF j <= Len(quiet)
          THEN /\ drv.invs[j].who = <<quiet[j]>>
               /\ drv.invs[j].labels = <<"quiet">>
          ELSE /\ drv.invs[j].who = <<1, 2>>
               /\ drv.invs[j].labels = <<"noisy", "noisy">>
               /\ drv.invs[j].delay = dly
    /\ \A j \in 1..(Len(drv.invs) - 1) : drv.invs[j].done
    /\ (drv.invs # <<>> /\ drv.invs[Len(drv.invs)].done) =>
          /\ hist.tdRet = N /\ hist.runReturned = 1..N
          /\ \A i \in 1..N : ~Alive(wproc[i])
    /\ drv.pc = "done" =>
          /\ Len(drv.invs) = Len(quiet) + 1
          /\ drv.invs[Len(drv.invs)].done

\* C12: run_interference with a legal selector makes one quiet
\* single-workload scheduler invocation per selected workload (primary
\* before secondary), each finished with its teardown before the next
\* begins, then exactly one invocation of (primary, secondary), both
\* labelled noisy, with the configured delay; an unselected workload is
\* never run quiet.
C12_AsymmetricOrder ==
    (drv.fn = "run_interference" /\ LegalSelector(drv.isolate)) =>
        QuietThenNoisy(Selected(drv.isolate), drv.delay)

C12_Witness ==
    /\ drv.fn = "run_interference" /\ drv.pc = "done"
    /\ Lower(drv.isolate) = Both /\ drv.isolate # Both
    /\ drv.delay > 0
    /\ ~drv.ls[1].test

\* The descriptor is as the caller handed it over.
Untouched(d) ==
    /\ d.jobid = Unset /\ d.contention = Unset
    /\ d.nnodes = NoCount /\ d.pnodes = NoCount /\ d.snodes = NoCount

\* C13 (as claimed): run_interference with a selector that is not primary,
\* secondary or both (in any case) raises the validation error, with no
\* descriptor changed, no file opened and the scheduler not invoked.
C13_InvalidSelectorRejected ==
    (drv.fn = "run_interference" /\ ~LegalSelector(drv.isolate)
         /\ drv.pc # "select") =>
        /\ drv.pc = "raised" /\ drv.exc = "ValueError"
        /\ \A r \in 1..Len(drv.desc) : Untouched(drv.desc[r])
        /\ drv.files = <<>> /\ drv.invs = <<>>

\* C14: run_symmetric_interference with more than two workloads raises
\* NotImplementedError; no output file is opened, the scheduler is not
\* invoked and no process is launched.
C14_ThreeWorkloadsRejected ==
    (drv.fn = "run_symmetric_interference" /\ Len(drv.desc) > 2) =>
        /\ drv.pc \in {"labels", "check", "raised"}
        /\ drv.pc = "raised" => drv.exc = "NotImplementedError"
        /\ drv.files = <<>> /\ drv.invs = <<>>
        /\ procs = <<>> /\ mpc = "idle"
        /\ \A r \in 1..Len(drv.ls) : drv.ls[r].log = <<>>

C14_Witness ==
    /\ drv.fn = "run_symmetric_interference" /\ Len(drv.desc) = 3
    /\ drv.pc = "raised" /\ drv.exc = "NotImplementedError"

\* C15: run_symmetric_interference with two workloads runs the first alone
\* and then the second alone, each labelled quiet in its own scheduler
\* invocation, and only then both together, labelled noisy, in one
\* invocation; when it returns both descriptors are labelled noisy.
C15_SymmetricOrder ==
    (drv.fn = "run_symmetric_interference" /\ Len(drv.desc) = 2) =>
        /\ QuietThenNoisy(<<1, 2>>, 0)
        /\ drv.pc = "done" => \A r \in 1..2 : drv.desc[r].contention = "noisy"

C15_Witness ==
    /\ drv.fn = "run_symmetric_interference" /\ drv.pc = "done"
    /\ ~drv.ls[1].test
    /\ \A i \in 1..2 : procs[i] # <<>>

\* The name the output file of descriptor r has under the label contention.
ExpectedName(r, contention) ==
    (IF r = 1 THEN "primary" ELSE "secondary") \o "_" \o contention \o "."
        \o ToString(Len(drv.ls[1].hosts)) \o "p-"
        \o ToString(Len(drv.ls[2].hosts)) \o "s."
        \o drv.desc[r].jobid \o ".out"

\* C16: while a scheduler invocation of either driver runs a workload, the
\* stdout of its launcher is a file opened for this phase, named
\* role_contention.Pp-Ss.jobid.out with the descriptor's current label
\* (quiet in a quiet invocation, noisy in the noisy one) and the node counts
\* of the primary and the secondary host list, and its stderr is the same
\* file object; the benchmark process gets that file as both streams.
C16_OutputFiles ==
    (drv.pc \in {"in_quiet", "in_noisy"} /\ mpc \in {"preflight", "pre_settle",
                                                     "pre_wait", "pool_start",
                                                     "pool_wait", "settle"}) =>
        \A k \in 1..Len(drv.cur) :
            LET r == drv.cur[k]
                label == IF drv.pc = "in_quiet" THEN "quiet" ELSE "noisy"
                name == ExpectedName(r, label)
            IN  /\ drv.desc[r].contention = label
                /\ drv.desc[r].jobid \in (IF drv.env = None THEN {"0", "1"}
                                           ELSE {drv.env})
                /\ launchers[k].stdout = name /\ launchers[k].stderr = name
                /\ drv.out[r] > drv.mark /\ drv.out[r] <= Len(drv.files)
                /\ drv.files[drv.out[r]] = name
                /\ drv.errf[r] = drv.out[r]
                /\ \A j \in 1..Len(procs[k]) : procs[k][j].site = "run" =>
                      procs[k][j].out = name /\ procs[k][j].err = name

C16_Witness ==
    /\ drv.fn = "run_interference" /\ drv.pc = "in_noisy" /\ mpc = "pool_wait"
    /\ \A k \in 1..2 : \E j \in 1..Len(procs[k]) : procs[k][j].site = "run"
    /\ launchers[1].stdout = "primary_noisy.2p-1s.123.out"
    /\ launchers[2].stderr = "secondary_noisy.2p-1s.123.out"

\* ------------------------------------- claims about the command line
\* The last direct call was a run that assembled a command line.
RunAssembled == calls.op = "run" /\ ~calls.raised

RECURSIVE ExtraFlags(_)
\* The flags of the launcher's extra arguments, in the order of the
\* dictionary: --key alone for the value True, --key and the value otherwise.
ExtraFlags(kw) ==
    IF kw = <<>> THEN <<>>
    ELSE LET e == kw[Len(kw)]
             flag == IF e.isbool
                     THEN IF e.bval THEN <<"--" \o e.key>> ELSE <<"--" \o e.key, "False">>
                     ELSE <<"--" \o e.key, e.sval>>
         IN  ExtraFlags(SubSeq(kw, 1, Len(kw) - 1)) \o flag

\* The fragments after the host enumeration, in the documented order, for
\* launcher l called with access a and pattern p.
TailFragments(l, a, p) ==
    LET limit == IF l.timelimit = 0 THEN <<>>
                 ELSE l.timelimit_args \o <<ToString(l.timelimit)>>
        random == IF l.random_data THEN l.random_data_args ELSE <<>>
        routing == IF l.kind = "elbencho" /\ l.stdout = OutFileOf(1)
                   THEN <<"--resfile", "w1.out.results", "--csvfile", "w1.out.csv">>
                   ELSE <<>>
        override == IF a = "write" /\ p = "iops"
                    THEN l.access_pattern_args["write"]["iops"] ELSE <<>>
        outdir == IF l.kind = "elbencho" THEN l.output_dir
                  ELSE <<"-o", l.output_dir[1]>>
    IN  limit \o random \o routing \o l.common_args \o l.access_args[a]
            \o l.pattern_args[p] \o override \o ExtraFlags(l.kwargs) \o outdir

\* ",".join of a list of one or two hosts.
CommaJoined(hosts) ==
    IF Len(hosts) = 1 THEN hosts[1] ELSE hosts[1] \o "," \o hosts[2]

\* C17: the command line of a run is, in this order: the launcher prefix (if
\* any), the binary, the host enumeration, the time limit (none when it is
\* 0), the random-data fragment (only when the flag is set), the results
\* routing, the common, access, pattern and override arguments (the override
\* added after access and pattern, which stay), the extra flags (--key alone
\* for True, --key value otherwise) and the output-directory fragment last.
\* The host enumeration of the launcher-prefixed adapters, built at that
\* step, is inserted into the prefix right after the launcher binary.
C17_AssemblyOrder ==
    RunAssembled =>
        LET l == launchers[1]
            cmd == calls.last
            rest == TailFragments(l, calls.args[1], calls.args[2])
            hosts == CommaJoined(l.hosts)
        IN  IF l.kind = "elbencho"
            THEN cmd = <<l.binary, "--hosts", hosts>> \o rest
            ELSE cmd = <<l.prepend_cmdline[1], "--nodelist", hosts>>
                           \o Tail(l.prepend_cmdline) \o <<l.binary>> \o rest

\* A run with the override and two extra flags, no time limit.
C17_Witness ==
    /\ RunAssembled /\ calls.n = 3
    /\ calls.args[1] = "write" /\ calls.args[2] = "iops"
    /\ Len(launchers[1].kwargs) = 2
    /\ launchers[1].timelimit = 0 /\ ~launchers[1].random_data
    /\ launchers[1].kind = "ior"

\* C18: ElbenchoLauncher puts --hosts and the comma-joined host list in its
\* command line and ends it with all the output directories; IorLauncher
\* and MdworkbenchLauncher have --nodelist and the comma-joined host list
\* at positions 1 and 2 (from 0), right after the launcher binary, and end
\* with -o and the first output directory only.
C18_HostAndOutputShape ==
    RunAssembled =>
        LET l == launchers[1]
            cmd == calls.last
            n == Len(cmd)
            dirs == l.output_dir
        IN  IF l.kind = "elbencho"
            THEN /\ \E k \in 1..(n - 1) :
                       cmd[k] = "--hosts" /\ cmd[k + 1] = "cgpu00,cgpu01"
                 /\ SubSeq(cmd, n - Len(dirs) + 1, n) = dirs
            ELSE /\ cmd[1] = MPIRUN_BIN
                 /\ cmd[2] = "--nodelist" /\ cmd[3] = "cgpu00,cgpu01"
                 /\ cmd[n - 1] = "-o" /\ cmd[n] = dirs[1]
                 /\ \A j \in 2..Len(dirs) : \A k \in 1..n : cmd[k] # dirs[j]

\* A launcher-prefixed adapter given two output directories started a run.
C18_Witness ==
    /\ RunAssembled
    /\ launchers[1].kind = "md-workbench" /\ Len(launchers[1].output_dir) = 2
    /\ Len(procs[1]) = 1 /\ procs[1][1].cmd = calls.last

\* ------------------------------------------------- claims about main
\* The set of the hosts in a list.
HostSet(list) == {list[k] : k \in 1..Len(list)}

\* C19: in every iteration of main's loop the primary and the secondary host
\* list have no host in common and together hold exactly the hosts of the
\* node list; the launchers are constructed with these lists.
C19_NodePartition ==
    mn.pc \in {"primary", "secondary", "run", "in_run"} =>
        /\ HostSet(mn.nodes_1) \cap HostSet(mn.nodes_2) = {}
        /\ HostSet(mn.nodes_1) \cup HostSet(mn.nodes_2) = HostSet(mn.node_list)
        /\ Len(mn.nodes_1) + Len(mn.nodes_2) = Len(mn.node_list)
        /\ mn.pc \in {"run", "in_run"} =>
              /\ mn.primary.hosts = mn.nodes_1
              /\ mn.secondary.hosts = mn.nodes_2

\* The second iteration, its launchers at work.
C19_Witness ==
    /\ mn.pc = "in_run" /\ mn.iter = 2
    /\ Len(mn.nodes_1) = 1 /\ Len(mn.nodes_2) = 2
    /\ drv.pc = "in_noisy" /\ mpc = "pool_wait"

\* The section of the tool lacks one of the keys the claim lists.
LacksRequiredKey(tool) ==
    \E k \in {"binary", "common_args", "access_args", "pattern_args",
               "timelimit_args"} : k \notin mn.config.keys[tool]

\* C20: when the section of a tool lacks binary, common_args, access_args,
\* pattern_args or timelimit_args, constructing its adapter raises KeyError
\* in the constructor: the launcher does not come to exist, main ends with
\* the error, and no process has been launched.
C20_MissingKeyFailsConstruction ==
    /\ LacksRequiredKey(mn.workload_1) => mn.primary = NoLauncher
    /\ LacksRequiredKey(mn.workload_2) => mn.secondary = NoLauncher
    /\ LacksRequiredKey(mn.workload_1) \/ LacksRequiredKey(mn.workload_2) =>
          /\ mn.pc \in {"loop", "primary", "secondary", "raised", "done"}
          /\ LacksRequiredKey(mn.workload_1) => mn.pc # "secondary"
          /\ mn.pc = "raised" => mn.exc = "KeyError"
          /\ mn.pc = "done" => mn.iter = 0
          /\ drv = NoDrv /\ procs = <<>> /\ launchers = <<>>

\* The secondary adapter's section lacks timelimit_args: the primary launcher
\* exists, the secondary's constructor has raised.
C20_Witness ==
    /\ mn.pc = "raised" /\ mn.exc = "KeyError"
    /\ "timelimit_args" \notin mn.config.keys["md-workbench"]
    /\ mn.workload_1 = "elbencho" /\ mn.workload_2 = "md-workbench"
    /\ mn.primary # NoLauncher /\ mn.secondary = NoLauncher
    /\ ~mn.test

\* --------------------------------------- claims about the loss table
\* The row of the pivot where "primary" has quiet = 100 and noisy = 80.
Quiet100Noisy80(r) ==
    /\ r \in 1..Len(sm.performance.index)
    /\ <<"quiet", "primary">> \in sm.performance.columns
    /\ <<"noisy", "primary">> \in sm.performance.columns
    /\ sm.performance.data[r][<<"quiet", "primary">>] = Num(100)
    /\ sm.performance.data[r][<<"noisy", "primary">>] = Num(80)

\* The loss table has the entry v for workload w in row r.
LossEntry(r, w, v) ==
    /\ sm.loss.index[r] = sm.performance.index[r]
    /\ w \in sm.loss.columns
    /\ sm.loss.data[r][w] = v

\* C21 (as claimed): where "primary" has quiet = 100 and noisy = 80 at a
\* node-count pair, loss_frame yields loss = 25.0 for "primary" at that pair.
C21_LossOf100And80Is25 ==
    sm.pc = "returned" =>
        \A r \in 1..MaxRows + 1 : Quiet100Noisy80(r) => LossEntry(r, "primary", Num(25))

\* C21 (amended): where "primary" has quiet = 100 and noisy = 80 at a
\* node-count pair, loss_frame yields loss = 20.0 for "primary" at that pair.
C21_LossOf100And80Is20 ==
    sm.pc = "returned" =>
        \A r \in 1..MaxRows + 1 : Quiet100Noisy80(r) => LossEntry(r, "primary", Num(20))

\* The table is returned for a pivot with quiet = 100 and noisy = 80 in its
\* second row and another pair before it.
C21_Witness ==
    /\ sm.pc = "returned"
    /\ Quiet100Noisy80(2)
    /\ ~Quiet100Noisy80(1)

\* The quiet and the noisy performance value of workload w both exist at
\* the pair of row r.
BothExist(r, w) ==
    /\ <<"quiet", w>> \in sm.performance.columns
    /\ <<"noisy", w>> \in sm.performance.columns
    /\ ~IsNaN(sm.performance.data[r][<<"quiet", w>>])
    /\ ~IsNaN(sm.performance.data[r][<<"noisy", w>>])

\* The loss records are those of the rows, one for each row in order.
RecordsOfRows == Len(sm.losses) = Len(sm.performance.index)

\* 100 * (quiet - noisy) / quiet of workload w in row r.
LossFormula(r, w) ==
    LET quiet == sm.performance.data[r][<<"quiet", w>>]
        noisy == sm.performance.data[r][<<"noisy", w>>]
    IN  Frac(100 * (quiet.num * noisy.den - noisy.num * quiet.den) * quiet.den,
             quiet.den * noisy.den * quiet.num)

\* C22 (as claimed): for every node-count pair and workload, the loss record
\* of the pair has an entry, equal to 100 * (quiet - noisy) / quiet, exactly
\* when both the quiet and the noisy value exist for that pair and workload;
\* where one of them is missing the entry is absent, not a number and not a
\* null that went through the subtraction.
C22_LossEntryIffBothExist ==
    sm.pc \in {"frame", "returned"} =>
        \A r \in 1..Len(sm.performance.index) : \A k \in 1..2 :
            LET w == WorkloadIds[k]
                present == RecordsOfRows /\ w \in DOMAIN sm.losses[r]
            IN  /\ present <=> BothExist(r, w)
                /\ present => sm.losses[r][w] = LossFormula(r, w)
                /\ sm.pc = "returned" /\ ~BothExist(r, w) /\ w \in sm.loss.columns
                      => IsNaN(sm.loss.data[r][w])

\* Row r of the pivot has no computable loss: for neither workload both
\* values exist.
NoComputableLoss(r) == \A k \in 1..2 : ~BothExist(r, WorkloadIds[k])

\* C28: for every performance pivot loss_frame returns its table without an
\* error; row r of the table has the index of row r of the pivot, and every
\* loss value in it was computed from row r of the pivot (it is a null where
\* that row lacks the quiet or the noisy value).
C28_LossRowsAligned ==
    /\ sm.pc # "raised"
    /\ sm.pc = "returned" =>
        /\ sm.loss.exc = None
        /\ sm.loss.index = sm.performance.index
        /\ \A r \in 1..Len(sm.performance.index) : \A w \in sm.loss.columns :
              /\ <<"quiet", w>> \in sm.performance.columns
              /\ <<"noisy", w>> \in sm.performance.columns
              /\ IF BothExist(r, w)
                 THEN sm.loss.data[r][w] = LossFormula(r, w)
                 ELSE IsNaN(sm.loss.data[r][w])

\* The table is returned for a pivot whose first pair has no computable loss
\* for either workload, and whose second pair has both.
C28_Witness ==
    /\ sm.pc = "returned"
    /\ Len(sm.performance.index) = 2
    /\ NoComputableLoss(1)
    /\ BothExist(2, "primary") /\ BothExist(2, "secondary")
    /\ sm.performance.data[2][<<"quiet", "primary">>] = Num(80)
    /\ sm.loss.data[2]["primary"] = Num(0 - 25)

\* ------------------------------------- claims about release and frames
\* C23 (as claimed): whenever run_launchers is left, by its return or by an
\* error raised in one of its phases, every background service a preflight
\* of the invocation started has been issued its shutdown.
C23_ServiceReleasedOnExit ==
    mpc \in {"returned", "raised"} =>
        \A i \in 1..N : svc[i] \in {"Starting", "Running"} =>
            \E k \in 1..Len(procs[i]) : procs[i][k].site = "quit"

\* The tokenized argument tables of a launcher.
ArgTables(l) == <<l.access_args, l.pattern_args, l.access_pattern_args>>

\* C24 (as claimed): constructing adapters from main's shared configuration
\* leaves the configuration as it was loaded, no construction fails on what
\* an earlier one left behind, and two adapters of one tool have the same
\* tokenized argument tables.
C24_ConstructionLeavesConfig ==
    mn.pc # "none" =>
        /\ mn.config.tokenized = {}
        /\ mn.exc # "AttributeError"
        /\ mn.primary # NoLauncher /\ mn.secondary # NoLauncher
           /\ mn.primary.kind = mn.secondary.kind
              => ArgTables(mn.primary) = ArgTables(mn.secondary)

\* The tokens of a command line.
Tokens(cmd) == {cmd[k] : k \in 1..Len(cmd)}

\* C25 (as claimed): ElbenchoLauncher.teardown leaves the launcher's stdout
\* and stderr as they were, on its return and on an error alike, and its
\* cleanup command has no --resfile or --csvfile and does not write to the
\* phase output file.
C25_TeardownKeepsStreams ==
    \A i \in 1..N : launchers[i].kind = "elbencho" =>
        /\ launchers[i].stdout = OutFileOf(i)
        /\ launchers[i].stderr = OutFileOf(i)
        /\ \A k \in 1..Len(procs[i]) : procs[i][k].site = "clean" =>
              /\ Tokens(procs[i][k].cmd) \cap {"--resfile", "--csvfile"} = {}
              /\ procs[i][k].out = PIPE
              /\ procs[i][k].err = PIPE

\* ------------------------------------------------ claims about termination
\* The handles some thread of run_launchers is waiting on.
WaitedHandles ==
    (IF mpc \in {"pre_wait", "td_clean", "td_wait"} THEN {mh} ELSE {})
        \cup {wproc[i] : i \in {j \in 1..N : wpc[j] = "wait"}}

\* No thread waits on a background service process, and no preflight that
\* started one returned a handle.
NoWaitOnService ==
    /\ \A h \in WaitedHandles \ {NoHandle} : procs[h[1]][h[2]].site # "service"
    /\ \A k \in 1..Len(hist.preHandle) :
          launchers[hist.preSeq[k]].kind = "elbencho" => hist.preHandle[k] = NoHandle

\* C26: when the benchmark processes and the processes whose handles a
\* teardown or a blocking preflight returns exit, run_launchers ends (by its
\* return or by an error); it never waits on the background service process,
\* whose preflight returns no handle.
C26_Terminates == [](NoWaitOnService) /\ <>(mpc \in {"returned", "raised"})

\* run_launchers has returned while the service process of a launcher, never
\* waited on, has not been seen to exit.
C26_Witness ==
    /\ mpc = "returned"
    /\ N = 2
    /\ \E i \in 1..N : \E k \in 1..Len(procs[i]) :
          /\ procs[i][k].site = "service" /\ procs[i][k].alive
          /\ \E q \in 1..Len(procs[i]) : procs[i][q].site = "quit" /\ ~procs[i][q].alive

\* ---------------------------------------------- claims about the job id
\* The descriptors whose job id has been set.
Labelled27 == {r \in 1..Len(drv.desc) : drv.desc[r].jobid # Unset}

\* C27 (as claimed): within one invocation of run_interference or
\* run_symmetric_interference all descriptors carry the same job id, also
\* when SLURM_JOBID is not set and the job id comes from the clock; the
\* output files of the invocation share it.
C27_OneJobId ==
    drv.fn # "none" =>
        /\ \A r1, r2 \in Labelled27 : drv.desc[r1].jobid = drv.desc[r2].jobid
        /\ drv.pc = "done" =>
              \A r \in Labelled27 : \A f \in 1..Len(drv.files) :
                  \E c \in {"quiet", "noisy"}, q \in 1..Len(drv.desc) :
                      drv.files[f] = ExpectedName(q, c)
                      /\ drv.desc[q].jobid = drv.desc[r].jobid

====
